---- MODULE Spec2Model ----
(***************************************************************************)
(* doc-forge converter: the markdown tokenizer (converter/md_parser.js)    *)
(* and the inline formatter (converter/convert.js).                        *)
(*                                                                         *)
(* A JavaScript string is a sequence of one-character strings; a regular   *)
(* expression is an operator that computes what the regex engine computes  *)
(* (greedy quantifiers, backtracking, anchors).  Indices into the lines and *)
(* into the text are 0-based as in the source; TLA+ sequences are 1-based, *)
(* hence the + 1 at every subscript.                                       *)
(***************************************************************************)
EXTENDS Integers, Sequences, FiniteSets, TLC

VARIABLES
    text,       \* parseMarkdown: the argument
    lines,      \* parseMarkdown: text.split(newline)
    i,          \* parseMarkdown: the line cursor
    blocks,     \* parseMarkdown: the blocks emitted so far / the result
    pc,         \* parseMarkdown, buildDocument and main: the control position
    itext,      \* parseInlineFormatting: the argument
    runs,       \* parseInlineFormatting: the runs pushed so far / the result
    lastIndex,  \* parseInlineFormatting: end of the previous match
    ipc,        \* parseInlineFormatting: "idle" | "call" | "exec" | "done"
    title,      \* main: args.title || the empty string
    document,   \* main: the Document buildDocument returned, NoDocument before
    returned,   \* parseMarkdown: the calls that have returned, each with its result
    argv,       \* both programs: the arguments of the command line
    disk,       \* both programs: what the files named by the arguments hold
    written,    \* both programs: how many times writeFileSync wrote the output file
    stdout,     \* both programs: the messages on standard output
    stderr,     \* both programs: the messages on standard error
    exitCode,   \* both programs: Running, or the exit code of the process
    sections,   \* converter.js convert: data.sections || []
    sectionIndex, \* converter.js convert: sections already taken by the for loop
    docChildren, \* converter.js convert: the elements pushed so far
    doc,        \* converter.js convert: the Document, NoDocument before
    cpc         \* converter.js: the control position

vars == <<text, lines, i, blocks, pc, itext, runs, lastIndex, ipc, title, document,
          returned,
          argv, disk, written, stdout, stderr, exitCode,
          sections, sectionIndex, docChildren, doc, cpc>>
parseVars == <<text, lines, i, blocks, pc, title, document, returned>>
inlineVars == <<itext, runs, lastIndex, ipc>>
processVars == <<argv, disk, written, stdout, stderr, exitCode>>
sectionVars == <<sections, sectionIndex, docChildren, doc, cpc>>
runVars == <<processVars, sectionVars>>

(***************************************************************************)
(* Bounds of the model.                                                    *)
(***************************************************************************)
MaxLines == 3        \* lines of a text built from CoreLines
MaxEdgeLines == 2    \* lines of a text built from AllLines (edge cases in context)
MaxInlineLen == 8    \* characters of an inline-formatter text
MaxBlocks == 2       \* blocks of a sequence handed to buildDocument
MaxSections == 2     \* sections of the JSON input of converter.js

(***************************************************************************)
(* Strings.                                                                *)
(***************************************************************************)
\* The backtick character U+0060: a TLA+ string literal cannot hold it, so it
\* is an atom of its own and a literal writes ~ for it.
Backtick == "BACKTICK"

Chars(s) ==
    [k \in 1..Len(s) |-> IF SubSeq(s, k, k) = "~" THEN Backtick ELSE SubSeq(s, k, k)]

SeqsUpTo(S, n) == UNION {[1..k -> S] : k \in 0..n}

Min(a, b) == IF a < b THEN a ELSE b

\* what \s and String.prototype.trim treat as white space
WhiteSpace == {" ", "\t", "\n", "\r"}
\* what . does not match
LineTerminators == {"\n", "\r"}
Digits == {"0", "1", "2", "3", "4", "5", "6", "7", "8", "9"}
\* what \w matches
WordChars == Digits \cup {"_"} \cup
    {"a", "b", "c", "d", "e", "f", "g", "h", "i", "j", "k", "l", "m",
     "n", "o", "p", "q", "r", "s", "t", "u", "v", "w", "x", "y", "z",
     "A", "B", "C", "D", "E", "F", "G", "H", "I", "J", "K", "L", "M",
     "N", "O", "P", "Q", "R", "S", "T", "U", "V", "W", "X", "Y", "Z"}

AllIn(s, S) == \A k \in 1..Len(s) : s[k] \in S
NoneIn(s, S) == \A k \in 1..Len(s) : s[k] \notin S

\* s.startsWith(p)
StartsWith(s, p) == Len(s) >= Len(p) /\ SubSeq(s, 1, Len(p)) = p

\* s.slice(from): 0-based, to the end
SliceFrom(s, from) == SubSeq(s, from + 1, Len(s))

\* s.trim()
Trim(s) ==
    LET keep == {k \in 1..Len(s) : s[k] \notin WhiteSpace}
    IN  IF keep = {} THEN <<>>
        ELSE SubSeq(s, CHOOSE k \in keep : \A m \in keep : k <= m,
                       CHOOSE k \in keep : \A m \in keep : k >= m)

\* s.split(d) for a one-character separator d: always at least one piece,
\* the m-th piece lies between the separators m - 1 and m
Split(s, d) ==
    LET hits == {k \in 1..Len(s) : s[k] = d}
        n == Cardinality(hits)
        at(m) == IF m = 0 THEN 0
                 ELSE IF m = n + 1 THEN Len(s) + 1
                 ELSE CHOOSE h \in hits : Cardinality({x \in hits : x < h}) = m - 1
    IN  [m \in 1..(n + 1) |-> SubSeq(s, at(m - 1) + 1, at(m) - 1)]

\* pieces.join(d)
RECURSIVE Join(_, _)
Join(pieces, d) ==
    IF pieces = <<>> THEN <<>>
    ELSE IF Len(pieces) = 1 THEN pieces[1]
    ELSE pieces[1] \o <<d>> \o Join(Tail(pieces), d)

\* arr.filter(keep) and arr.map(f) of the cell pipeline
IsNonBlankCell(cell) == Trim(cell) /= <<>>

FilterNonBlank(cells) == SelectSeq(cells, IsNonBlankCell)

MapTrim(cells) == [k \in 1..Len(cells) |-> Trim(cells[k])]

\* number of leading characters of s, from 0-based offset from, that are in S
RECURSIVE RunLen(_, _, _)
RunLen(s, from, S) ==
    IF from < Len(s) /\ s[from + 1] \in S THEN 1 + RunLen(s, from + 1, S) ELSE 0

(***************************************************************************)
(* md_parser.js: the block constructors.                                   *)
(***************************************************************************)
heading(level, txt) == [type |-> "heading", level |-> level, text |-> txt]
paragraph(txt) == [type |-> "paragraph", text |-> txt]
code(lang, content) == [type |-> "code", lang |-> lang, content |-> content]
bullet_list(items) == [type |-> "bullet_list", items |-> items]
numbered_list(items) == [type |-> "numbered_list", items |-> items]
table(headers, rows) == [type |-> "table", headers |-> headers, rows |-> rows]
blockquote(txt) == [type |-> "blockquote", text |-> txt]
placeholder(txt) == [type |-> "placeholder", text |-> txt]

(***************************************************************************)
(* md_parser.js: the regular expressions of parseMarkdown.                 *)
(***************************************************************************)
\* line.trim() is the empty string
IsBlankLine(line) == Trim(line) = <<>>

\* mutant of HeadingSplits: up to six # open a heading
HeadingSplitsUpToSix(line) ==
    {hw \in (1..6) \X (1..Len(line)) :
        /\ hw[1] + hw[2] < Len(line)
        /\ AllIn(SubSeq(line, 1, hw[1]), {"#"})
        /\ AllIn(SubSeq(line, hw[1] + 1, hw[1] + hw[2]), WhiteSpace)
        /\ NoneIn(SliceFrom(line, hw[1] + hw[2]), LineTerminators)}

\* /^(#{1,3})\s+(.+)$/ : the ways of splitting the line into h hashes, w white
\* space characters and a non-empty rest that . matches
HeadingSplits(line) ==
    {hw \in (1..3) \X (1..Len(line)) :
        /\ hw[1] + hw[2] < Len(line)
        /\ AllIn(SubSeq(line, 1, hw[1]), {"#"})
        /\ AllIn(SubSeq(line, hw[1] + 1, hw[1] + hw[2]), WhiteSpace)
        /\ NoneIn(SliceFrom(line, hw[1] + hw[2]), LineTerminators)}

HeadingMatches(line) == HeadingSplits(line) /= {}

\* the split the engine finds first: both quantifiers are greedy
HeadingMatch(line) ==
    LET S == HeadingSplits(line)
        h == CHOOSE a \in {hw[1] : hw \in S} : \A b \in {hw[1] : hw \in S} : a >= b
        w == CHOOSE a \in {hw[2] : hw \in {x \in S : x[1] = h}} :
                 \A b \in {hw[2] : hw \in {x \in S : x[1] = h}} : a >= b
    IN  [g1 |-> SubSeq(line, 1, h), g2 |-> SliceFrom(line, h + w)]

Fence == <<Backtick, Backtick, Backtick>>

\* codeBlockMatch: ^ three backticks (\w*) $
CodeBlockMatches(line) ==
    StartsWith(line, Fence) /\ AllIn(SliceFrom(line, 3), WordChars)

CodeBlockMatch(line) == [g1 |-> SliceFrom(line, 3)]

\* /^\|.+\|$/
TableRowMatches(line) ==
    /\ Len(line) >= 3
    /\ line[1] = "|"
    /\ line[Len(line)] = "|"
    /\ NoneIn(SubSeq(line, 2, Len(line) - 1), LineTerminators)

\* /^\|[\s-:\|]+$/ : in the class, \s then the three literals - : |
SeparatorMatches(line) ==
    /\ Len(line) >= 2
    /\ line[1] = "|"
    /\ AllIn(SliceFrom(line, 1), WhiteSpace \cup {"-", ":", "|"})

\* /^[-*]\s+/
BulletMatches(line) ==
    Len(line) >= 2 /\ line[1] \in {"-", "*"} /\ line[2] \in WhiteSpace

\* mutant of BulletItem: the marker and one white space character are removed
BulletItemOneSpace(line) == SliceFrom(line, 2)

\* line.replace(/^[-*]\s+/, empty string)
BulletItem(line) == SliceFrom(line, 1 + RunLen(line, 1, WhiteSpace))

\* /^\d+\.\s+/
NumberedMatches(line) ==
    LET d == RunLen(line, 0, Digits)
    IN  /\ d >= 1
        /\ Len(line) >= d + 2
        /\ line[d + 1] = "."
        /\ line[d + 2] \in WhiteSpace

\* line.replace(/^\d+\.\s+/, empty string)
NumberedItem(line) ==
    LET d == RunLen(line, 0, Digits)
    IN  SliceFrom(line, d + 1 + RunLen(line, d + 1, WhiteSpace))

PlaceholderKinds == {Chars("Image"), Chars("External")}

\* /^\[(Image|External):\s*(.+)\]$/ : the ways of splitting the line into
\* "[", a kind, ":", w white space characters, a non-empty rest that . matches
\* and the final "]"
PlaceholderSplits(line) ==
    {kw \in PlaceholderKinds \X (0..Len(line)) :
        /\ StartsWith(line, <<"[">> \o kw[1] \o <<":">>)
        /\ Len(kw[1]) + 2 + kw[2] + 1 < Len(line)
        /\ line[Len(line)] = "]"
        /\ AllIn(SubSeq(line, Len(kw[1]) + 3, Len(kw[1]) + 2 + kw[2]), WhiteSpace)
        /\ NoneIn(SubSeq(line, Len(kw[1]) + 3 + kw[2], Len(line) - 1), LineTerminators)}

PlaceholderMatches(line) == PlaceholderSplits(line) /= {}

\* mutant of PlaceholderMatch: \s* is lazy, the white space stays in the text
PlaceholderMatchLazy(line) ==
    LET S == PlaceholderSplits(line)
        kw == CHOOSE a \in S : \A b \in S : a[2] <= b[2]
    IN  [g1 |-> kw[1],
         g2 |-> SubSeq(line, Len(kw[1]) + 3 + kw[2], Len(line) - 1)]

\* the split the engine finds first: \s* is greedy
PlaceholderMatch(line) ==
    LET S == PlaceholderSplits(line)
        kw == CHOOSE a \in S : \A b \in S : a[2] >= b[2]
    IN  [g1 |-> kw[1],
         g2 |-> SubSeq(line, Len(kw[1]) + 3 + kw[2], Len(line) - 1)]

(***************************************************************************)
(* md_parser.js: the inner loops of parseMarkdown.  Each returns the       *)
(* cursor where its while loop stops.                                      *)
(***************************************************************************)
\* mutant of CodeLoop: a blank line ends the fence as well
RECURSIVE CodeLoopStopsAtBlank(_, _)
CodeLoopStopsAtBlank(ls, j) ==
    IF j < Len(ls) /\ ~StartsWith(ls[j + 1], Fence) /\ ~IsBlankLine(ls[j + 1])
    THEN CodeLoopStopsAtBlank(ls, j + 1)
    ELSE j

\* while (i < lines.length && !lines[i].startsWith(fence)) i++
RECURSIVE CodeLoop(_, _)
CodeLoop(ls, j) ==
    IF j < Len(ls) /\ ~StartsWith(ls[j + 1], Fence) THEN CodeLoop(ls, j + 1) ELSE j

\* while (i < lines.length && lines[i].match(/^\|.+\|$/)) i++
RECURSIVE RowLoop(_, _)
RowLoop(ls, j) ==
    IF j < Len(ls) /\ TableRowMatches(ls[j + 1]) THEN RowLoop(ls, j + 1) ELSE j

\* while (i < lines.length && lines[i].match(/^[-*]\s+/)) i++
RECURSIVE BulletLoop(_, _)
BulletLoop(ls, j) ==
    IF j < Len(ls) /\ BulletMatches(ls[j + 1]) THEN BulletLoop(ls, j + 1) ELSE j

\* while (i < lines.length && lines[i].match(/^\d+\.\s+/)) i++
RECURSIVE NumberedLoop(_, _)
NumberedLoop(ls, j) ==
    IF j < Len(ls) /\ NumberedMatches(ls[j + 1]) THEN NumberedLoop(ls, j + 1) ELSE j

\* mutant of Cells: no cell is filtered out
CellsUnfiltered(line) == MapTrim(Split(line, "|"))

\* line.split('|').filter(cell => cell.trim() !== '').map(cell => cell.trim())
Cells(line) == MapTrim(FilterNonBlank(Split(line, "|")))

\* the condition of the table branch
TableStarts(ls, j) ==
    /\ TableRowMatches(ls[j + 1])
    /\ j + 1 < Len(ls)
    /\ SeparatorMatches(ls[j + 2])

\* the branch of the main loop that the line at cursor j takes: the if
\* statements in source order, each ending in continue
Rule(ls, j) ==
    LET line == ls[j + 1]
    IN  IF IsBlankLine(line) THEN "blank"
        ELSE IF HeadingMatches(line) THEN "heading"
        ELSE IF CodeBlockMatches(line) THEN "code"
        ELSE IF StartsWith(line, <<">">>) THEN "blockquote"
        ELSE IF TableStarts(ls, j) THEN "table"
        ELSE IF BulletMatches(line) THEN "bullet_list"
        ELSE IF NumberedMatches(line) THEN "numbered_list"
        ELSE IF PlaceholderMatches(line) THEN "placeholder"
        ELSE "paragraph"

(***************************************************************************)
(* The arguments parseMarkdown is called with.  A JavaScript value is a    *)
(* record: its type, its number (for a number) and its characters (for a   *)
(* string).                                                                *)
(***************************************************************************)
Str(cs) == [kind |-> "string", num |-> 0, chars |-> cs]
Null == [kind |-> "null", num |-> 0, chars |-> <<>>]
Undefined == [kind |-> "undefined", num |-> 0, chars |-> <<>>]
Num(n) == [kind |-> "number", num |-> n, chars |-> <<>>]
Obj == [kind |-> "object", num |-> 0, chars |-> <<>>]

\* !v
Falsy(v) ==
    \/ v.kind \in {"null", "undefined"}
    \/ v.kind = "number" /\ v.num = 0
    \/ v.kind = "string" /\ v.chars = <<>>

NonStrings == {Null, Undefined, Num(0), Num(42), Obj}

CoreLines ==
    {Chars(""), Chars("# a"), Chars("~~~"), Chars("> a"), Chars("|a|"),
     Chars("|-|"), Chars("- a"), Chars("* b"), Chars("1. a"), Chars("[Image: x]"),
     Chars("a")}

\* lines at the edges of the regular expressions
EdgeLines ==
    {Chars(" "), Chars(" **b** ~c~ "),
     Chars("###  a b "), Chars("#### a"), Chars("#a"), Chars("#  "), Chars("# a\r"),
     Chars("~~~js"), Chars("~~~ x"),
     Chars(">"), Chars(">  q  "),
     Chars("| |"), Chars("|:-|-:|"), Chars("|a"), Chars("| A || B |"),
     Chars("-a"), Chars("-  c"), Chars("12.  b"),
     Chars("[External: y]"), Chars("[Image:x]"), Chars("[Image:  x]"),
     Chars("z [Image: x] z")}

\* the lines of CoreLines that give an edge line its context
ContextLines == {Chars("|a|"), Chars("|-|"), Chars("- a"), Chars("a")}

AllLines == EdgeLines \cup ContextLines

\* tables whose header has no cell, with rows and other lines after them
TableTexts ==
    {Chars("| |\n|-|\n| b |\n- a"), Chars("a\n| |\n|:-|-:|\n# a"),
     Chars("||||\n|-|\n\n| A || B |\n|-|\n| 1 || 2 |")}

Texts ==
    {Join(ls, "\n") : ls \in SeqsUpTo(CoreLines, MaxLines)}
        \cup {Join(ls, "\n") : ls \in SeqsUpTo(AllLines, MaxEdgeLines)}
        \cup TableTexts

ParseInputs == {Str(t) : t \in Texts} \cup NonStrings

\* main: const title = args.title || the empty string
Titles == {Chars(""), Chars("Doc")}

NoDocument == [el |-> "none"]

\* in place of the exit code while the process has not ended
Running == -1

\* no command line and no files: the functions are called on their own
NoArgs == [program |-> "none"]
NoDisk == [input |-> "none"]

(***************************************************************************)
(* parseMarkdown as a state machine: the guard, then one step per          *)
(* iteration of the main loop.                                             *)
(***************************************************************************)
\* mutant of RejectsInput: only the !text half of the guard
RejectsInputFalsyOnly(v) == Falsy(v)

\* !text || typeof text !== 'string'
RejectsInput(v) == Falsy(v) \/ v.kind /= "string"

\* if (!text || typeof text !== 'string') return [];
ReturnEmpty ==
    /\ pc = "call"
    /\ RejectsInput(text)
    /\ blocks' = <<>>
    /\ pc' = "done"
    /\ UNCHANGED <<text, lines, i, title, document, inlineVars, runVars, returned>>

\* mutant of StartScan: blocks is an array of the module, never emptied
StartScanKeepsBlocks ==
    /\ pc = "call"
    /\ ~RejectsInput(text)
    /\ blocks' = blocks
    /\ IF text.kind = "string"
       THEN /\ lines' = Split(text.chars, "\n")
            /\ pc' = "scan"
       ELSE /\ lines' = lines
            /\ pc' = "error"
    /\ i' = 0
    /\ UNCHANGED <<text, title, document, inlineVars, runVars, returned>>

\* const blocks = []; const lines = text.split('\n'); let i = 0;
\* split is a method of strings only: on any other value that got past the
\* guard the call throws a TypeError
StartScan ==
    /\ pc = "call"
    /\ ~RejectsInput(text)
    /\ blocks' = <<>>
    /\ IF text.kind = "string"
       THEN /\ lines' = Split(text.chars, "\n")
            /\ pc' = "scan"
       ELSE /\ lines' = lines
            /\ pc' = "error"
    /\ i' = 0
    /\ UNCHANGED <<text, title, document, inlineVars, runVars, returned>>

AtLine(rule) == pc = "scan" /\ i < Len(lines) /\ Rule(lines, i) = rule

\* mutant of SkipBlank: continue without i++
SkipBlankStays ==
    /\ AtLine("blank")
    /\ i' = i
    /\ UNCHANGED <<text, lines, blocks, pc, title, document, inlineVars, runVars, returned>>

SkipBlank ==
    /\ AtLine("blank")
    /\ i' = i + 1
    /\ UNCHANGED <<text, lines, blocks, pc, title, document, inlineVars, runVars, returned>>

EmitHeading ==
    /\ AtLine("heading")
    /\ LET headingMatch == HeadingMatch(lines[i + 1])
       IN  blocks' = Append(blocks, heading(Len(headingMatch.g1), Trim(headingMatch.g2)))
    /\ i' = i + 1
    /\ UNCHANGED <<text, lines, pc, title, document, inlineVars, runVars, returned>>

EmitCode ==
    /\ AtLine("code")
    /\ LET lang == CodeBlockMatch(lines[i + 1]).g1
           end == CodeLoop(lines, i + 1)
           codeLines == SubSeq(lines, i + 2, end)
       IN  /\ blocks' = Append(blocks, code(lang, Join(codeLines, "\n")))
           /\ i' = end + 1
    /\ UNCHANGED <<text, lines, pc, title, document, inlineVars, runVars, returned>>

\* mutant of EmitBlockquote: the quote lines that follow are merged into the
\* same block, one trimmed line after the other, joined by newline
EmitBlockquoteMerged ==
    /\ AtLine("blockquote")
    /\ LET ends == {e \in (i + 1)..Len(lines) :
                       /\ \A k \in i..(e - 1) : StartsWith(lines[k + 1], <<">">>)
                       /\ e < Len(lines) => ~StartsWith(lines[e + 1], <<">">>)}
           end == CHOOSE e \in ends : TRUE
           quoted == [k \in 1..(end - i) |-> Trim(SliceFrom(lines[i + k], 1))]
       IN  /\ blocks' = Append(blocks, blockquote(Join(quoted, "\n")))
           /\ i' = end
    /\ UNCHANGED <<text, lines, pc, title, document, inlineVars, runVars, returned>>

EmitBlockquote ==
    /\ AtLine("blockquote")
    /\ blocks' = Append(blocks, blockquote(Trim(SliceFrom(lines[i + 1], 1))))
    /\ i' = i + 1
    /\ UNCHANGED <<text, lines, pc, title, document, inlineVars, runVars, returned>>

\* mutant of EmitTable: the cursor moves past the header line only
EmitTableHeaderOnly ==
    /\ AtLine("table")
    /\ LET headers == Cells(lines[i + 1])
           end == RowLoop(lines, i + 2)
           rows == [k \in 1..(end - (i + 2)) |-> Cells(lines[i + 2 + k])]
       IN  /\ blocks' = IF Len(headers) > 0
                        THEN Append(blocks, table(headers, rows))
                        ELSE blocks
           /\ i' = i + 1
    /\ UNCHANGED <<text, lines, pc, title, document, inlineVars, runVars, returned>>

EmitTable ==
    /\ AtLine("table")
    /\ LET headers == Cells(lines[i + 1])
           end == RowLoop(lines, i + 2)
           rows == [k \in 1..(end - (i + 2)) |-> Cells(lines[i + 2 + k])]
       IN  /\ blocks' = IF Len(headers) > 0
                        THEN Append(blocks, table(headers, rows))
                        ELSE blocks
           /\ i' = end
    /\ UNCHANGED <<text, lines, pc, title, document, inlineVars, runVars, returned>>

EmitBulletList ==
    /\ AtLine("bullet_list")
    /\ LET end == BulletLoop(lines, i)
           items == [k \in 1..(end - i) |-> BulletItem(lines[i + k])]
       IN  /\ blocks' = IF Len(items) > 0
                        THEN Append(blocks, bullet_list(items))
                        ELSE blocks
           /\ i' = end
    /\ UNCHANGED <<text, lines, pc, title, document, inlineVars, runVars, returned>>

EmitNumberedList ==
    /\ AtLine("numbered_list")
    /\ LET end == NumberedLoop(lines, i)
           items == [k \in 1..(end - i) |-> NumberedItem(lines[i + k])]
       IN  /\ blocks' = IF Len(items) > 0
                        THEN Append(blocks, numbered_list(items))
                        ELSE blocks
           /\ i' = end
    /\ UNCHANGED <<text, lines, pc, title, document, inlineVars, runVars, returned>>

EmitPlaceholder ==
    /\ AtLine("placeholder")
    /\ LET placeholderMatch == PlaceholderMatch(lines[i + 1])
       IN  blocks' = Append(blocks,
               placeholder(placeholderMatch.g1 \o <<":", " ">> \o placeholderMatch.g2))
    /\ i' = i + 1
    /\ UNCHANGED <<text, lines, pc, title, document, inlineVars, runVars, returned>>

\* mutant of EmitParagraph: the text of the paragraph is trimmed
EmitParagraphTrimmed ==
    /\ AtLine("paragraph")
    /\ blocks' = Append(blocks, paragraph(Trim(lines[i + 1])))
    /\ i' = i + 1
    /\ UNCHANGED <<text, lines, pc, title, document, inlineVars, runVars, returned>>

EmitParagraph ==
    /\ AtLine("paragraph")
    /\ blocks' = Append(blocks, paragraph(lines[i + 1]))
    /\ i' = i + 1
    /\ UNCHANGED <<text, lines, pc, title, document, inlineVars, runVars, returned>>

\* the loop condition fails: return blocks
ReturnBlocks ==
    /\ pc = "scan"
    /\ ~(i < Len(lines))
    /\ pc' = "done"
    /\ UNCHANGED <<text, lines, i, blocks, title, document, inlineVars, runVars, returned>>

(***************************************************************************)
(* convert.js: parseInlineFormatting.  An object of the docx library is    *)
(* the record of its class and of the options it was constructed with.     *)
(***************************************************************************)
TextRun(opts) == [el |-> "TextRun", opts |-> opts]
PlainRun(txt) == TextRun([text |-> txt])
BoldRun(txt) == TextRun([text |-> txt, bold |-> TRUE])
CodeRun(txt) == TextRun([text |-> txt, font |-> "Courier New"])

\* s.slice(from, to): 0-based, to exclusive
Slice(s, from, to) == SubSeq(s, from + 1, to)

\* number of characters of s, from 0-based offset from, that are not c
RECURSIVE RunLenNot(_, _, _)
RunLenNot(s, from, c) ==
    IF from < Len(s) /\ s[from + 1] /= c THEN 1 + RunLenNot(s, from + 1, c) ELSE 0

\* d d [^d]+ d d matched at 0-based offset p, for the one-character delimiter
\* d doubled (m = 2) or single (m = 1): the length of the match, 0 if none.
\* The greedy class swallows every character up to the next d, and giving
\* characters back cannot help, because the closing delimiter starts with d.
DelimitedAt(s, p, d, m) ==
    LET n == RunLenNot(s, p + m, d)
    IN  IF /\ p + m <= Len(s)
           /\ \A k \in 1..m : s[p + k] = d
           /\ n >= 1
           /\ p + 2 * m + n <= Len(s)
           /\ \A k \in 1..m : s[p + m + n + k] = d
        THEN 2 * m + n
        ELSE 0

\* /(\*\*[^*]+\*\*|`[^`]+`)/ tried at offset p: the first alternative first
MatchAt(s, p) ==
    IF DelimitedAt(s, p, "*", 2) > 0 THEN DelimitedAt(s, p, "*", 2)
    ELSE DelimitedAt(s, p, Backtick, 1)

\* regex.exec(text) with regex.lastIndex = from: the leftmost match at or
\* after from, as [index, len]; len = 0 stands for null
RECURSIVE Exec(_, _)
Exec(s, from) ==
    IF from >= Len(s) THEN [index |-> from, len |-> 0]
    ELSE IF MatchAt(s, from) > 0 THEN [index |-> from, len |-> MatchAt(s, from)]
    ELSE Exec(s, from + 1)

\* mutant of MatchRuns: the text before the match is not pushed
MatchRunsSpanOnly(s, last, m) ==
    LET matchText == Slice(s, m.index, m.index + m.len)
    IN  IF StartsWith(matchText, <<"*", "*">>)
        THEN <<BoldRun(Slice(matchText, 2, Len(matchText) - 2))>>
        ELSE <<CodeRun(Slice(matchText, 1, Len(matchText) - 1))>>

\* the runs one iteration of the while loop pushes for the match m
MatchRuns(s, last, m) ==
    LET matchText == Slice(s, m.index, m.index + m.len)
        before == IF m.index > last THEN <<PlainRun(Slice(s, last, m.index))>> ELSE <<>>
        span == IF StartsWith(matchText, <<"*", "*">>)
                   /\ Slice(matchText, Len(matchText) - 2, Len(matchText)) = <<"*", "*">>
                THEN <<BoldRun(Slice(matchText, 2, Len(matchText) - 2))>>
                ELSE IF StartsWith(matchText, <<Backtick>>)
                        /\ matchText[Len(matchText)] = Backtick
                THEN <<CodeRun(Slice(matchText, 1, Len(matchText) - 1))>>
                ELSE <<>>
    IN  before \o span

InlineAlphabet == {"*", Backtick, "a"}

InlineInputs ==
    {Str(t) : t \in SeqsUpTo(InlineAlphabet, MaxInlineLen)} \cup {Null, Undefined}

\* mutant of InlineReturnEmpty: the guard returns an empty array
InlineReturnEmptyNoRun ==
    /\ ipc = "call"
    /\ Falsy(itext)
    /\ runs' = <<>>
    /\ ipc' = "done"
    /\ UNCHANGED <<itext, lastIndex, parseVars, runVars>>

\* if (!text) return [new TextRun({ text: '' })];
InlineReturnEmpty ==
    /\ ipc = "call"
    /\ Falsy(itext)
    /\ runs' = <<PlainRun(<<>>)>>
    /\ ipc' = "done"
    /\ UNCHANGED <<itext, lastIndex, parseVars, runVars>>

\* const runs = []; let lastIndex = 0;
InlineStart ==
    /\ ipc = "call"
    /\ ~Falsy(itext)
    /\ runs' = <<>>
    /\ lastIndex' = 0
    /\ ipc' = "exec"
    /\ UNCHANGED <<itext, parseVars, runVars>>

\* one iteration of while ((match = regex.exec(text)) !== null)
InlineMatch ==
    /\ ipc = "exec"
    /\ LET match == Exec(itext.chars, lastIndex)
       IN  /\ match.len > 0
           /\ runs' = runs \o MatchRuns(itext.chars, lastIndex, match)
           /\ lastIndex' = match.index + match.len
    /\ UNCHANGED <<itext, ipc, parseVars, runVars>>

\* exec returns null: push the rest, return runs or the single empty run
InlineReturn ==
    /\ ipc = "exec"
    /\ Exec(itext.chars, lastIndex).len = 0
    /\ LET all == IF lastIndex < Len(itext.chars)
                  THEN Append(runs, PlainRun(SliceFrom(itext.chars, lastIndex)))
                  ELSE runs
       IN  runs' = IF Len(all) > 0 THEN all ELSE <<PlainRun(<<>>)>>
    /\ ipc' = "done"
    /\ UNCHANGED <<itext, lastIndex, parseVars, runVars>>

\* parseInlineFormatting as a function: the loop run to its end
RECURSIVE InlineLoop(_, _, _)
InlineLoop(s, last, rs) ==
    LET match == Exec(s, last)
    IN  IF match.len > 0
        THEN InlineLoop(s, match.index + match.len, rs \o MatchRuns(s, last, match))
        ELSE LET all == IF last < Len(s) THEN Append(rs, PlainRun(SliceFrom(s, last)))
                        ELSE rs
             IN  IF Len(all) > 0 THEN all ELSE <<PlainRun(<<>>)>>

parseInlineFormatting(txt) ==
    IF txt = <<>> THEN <<PlainRun(<<>>)>> ELSE InlineLoop(txt, 0, <<>>)

(***************************************************************************)
(* convert.js: blockToParagraph and buildDocument.  blockToParagraph       *)
(* returns one element, or an array of elements for a list; JsValue tells  *)
(* the two apart as Array.isArray does.                                    *)
(***************************************************************************)
Paragraph(opts) == [el |-> "Paragraph", opts |-> opts]
Table(opts) == [el |-> "Table", opts |-> opts]
TableRow(opts) == [el |-> "TableRow", opts |-> opts]
TableCell(opts) == [el |-> "TableCell", opts |-> opts]
TableOfContents(alias, opts) == [el |-> "TableOfContents", alias |-> alias, opts |-> opts]
PageBreak == [el |-> "PageBreak"]
Document(opts) == [el |-> "Document", opts |-> opts]

JsObject(e) == [isArray |-> FALSE, value |-> e]
JsArray(es) == [isArray |-> TRUE, value |-> es]

\* mutant of HeadingLevelOf: every heading is one level down
HeadingLevelOfDemoted(level) ==
    IF level = 1 THEN "HEADING_2"
    ELSE IF level = 2 THEN "HEADING_3"
    ELSE "HEADING_3"

\* the inner switch on block.level
HeadingLevelOf(level) ==
    IF level = 1 THEN "HEADING_1"
    ELSE IF level = 2 THEN "HEADING_2"
    ELSE IF level = 3 THEN "HEADING_3"
    ELSE "HEADING_1"

\* case 'heading'
HeadingCase(block) ==
    JsObject(Paragraph([heading |-> HeadingLevelOf(block.level),
                        children |-> <<TextRun([text |-> block.text, bold |-> TRUE])>>,
                        outlineLevel |-> block.level]))

\* case 'paragraph'
ParagraphCase(block) ==
    JsObject(Paragraph([children |-> parseInlineFormatting(block.text)]))

\* case 'code'
CodeCase(block) ==
    JsObject(Paragraph([children |-> <<TextRun([text |-> block.content,
                                                font |-> "Courier New",
                                                size |-> 24])>>,
                        shading |-> [val |-> "CLEAR", fill |-> "E0E0E0"]]))

\* case 'bullet_list'
BulletListCase(block) ==
    JsArray([k \in 1..Len(block.items) |->
                Paragraph([text |-> block.items[k], bullet |-> [level |-> 0]])])

\* mutant of NumberedListCase: the items are bullets
NumberedListCaseAsBullets(block) ==
    JsArray([k \in 1..Len(block.items) |->
                Paragraph([text |-> block.items[k], bullet |-> [level |-> 0]])])

\* case 'numbered_list'
NumberedListCase(block) ==
    JsArray([k \in 1..Len(block.items) |->
                Paragraph([text |-> block.items[k],
                           numbering |-> [reference |-> "numbered-list", level |-> 0]])])

\* case 'table': block.headers.map(...)
HeaderRow(block) ==
    TableRow([children |-> [k \in 1..Len(block.headers) |->
        TableCell([children |-> <<Paragraph([children |->
                       <<TextRun([text |-> block.headers[k], bold |-> TRUE])>>])>>,
                   shading |-> [val |-> "CLEAR", fill |-> "D0D0D0"]])]])

\* mutant of DataRows: a row is cut to the number of headers
DataRowsCutToHeaders(block) ==
    [r \in 1..Len(block.rows) |->
        TableRow([children |->
            [k \in 1..Min(Len(block.rows[r]), Len(block.headers)) |->
                TableCell([children |-> <<Paragraph([children |->
                               <<TextRun([text |-> block.rows[r][k]])>>])>>])]])]

\* case 'table': block.rows.map(...)
DataRows(block) ==
    [r \in 1..Len(block.rows) |->
        TableRow([children |-> [k \in 1..Len(block.rows[r]) |->
            TableCell([children |-> <<Paragraph([children |->
                           <<TextRun([text |-> block.rows[r][k]])>>])>>])]])]

\* case 'table'
TableCase(block) ==
    JsObject(Table([rows |-> <<HeaderRow(block)>> \o DataRows(block),
                    width |-> [type |-> "DXA", size |-> 10000]]))

\* mutant of BlockquoteCase: the inline formatter is applied to the quote
BlockquoteCaseFormatted(block) ==
    JsObject(Paragraph([children |-> parseInlineFormatting(block.text),
                        indent |-> [left |-> 720]]))

\* case 'blockquote'
BlockquoteCase(block) ==
    JsObject(Paragraph([children |-> <<TextRun([text |-> block.text, italics |-> TRUE])>>,
                        indent |-> [left |-> 720]]))

\* case 'placeholder'
PlaceholderCase(block) ==
    JsObject(Paragraph([children |->
        <<TextRun([text |-> <<"[">> \o block.text \o <<"]">>, italics |-> TRUE])>>]))

blockToParagraph(block) ==
    IF block.type = "heading" THEN HeadingCase(block)
    ELSE IF block.type = "paragraph" THEN ParagraphCase(block)
    ELSE IF block.type = "code" THEN CodeCase(block)
    ELSE IF block.type = "bullet_list" THEN BulletListCase(block)
    ELSE IF block.type = "numbered_list" THEN NumberedListCase(block)
    ELSE IF block.type = "table" THEN TableCase(block)
    ELSE IF block.type = "blockquote" THEN BlockquoteCase(block)
    ELSE IF block.type = "placeholder" THEN PlaceholderCase(block)
    ELSE JsObject(Paragraph([children |-> <<TextRun([text |-> <<>>])>>]))

\* for (const block of blocks): push the element, or spread the array
RECURSIVE ContentOf(_)
ContentOf(bs) ==
    IF bs = <<>> THEN <<>>
    ELSE LET elements == blockToParagraph(bs[1])
         IN  (IF elements.isArray THEN elements.value ELSE <<elements.value>>)
                 \o ContentOf(Tail(bs))

\* mutant of TitleParagraph: the title run shows the title as given
TitleParagraphAsGiven(ttl) ==
    Paragraph([alignment |-> "CENTER",
               children |-> <<TextRun([text |-> ttl, size |-> 72, bold |-> TRUE])>>])

\* Section 1 - Title Page: the title paragraph
TitleParagraph(ttl) ==
    Paragraph([alignment |-> "CENTER",
               children |-> <<TextRun([text |-> IF ttl /= <<>> THEN ttl
                                                ELSE Chars("Document Title"),
                                       size |-> 72,
                                       bold |-> TRUE])>>])

\* mutant of TitleHeading: the heading is pushed whatever the title is
TitleHeadingAlways(ttl) ==
    <<Paragraph([heading |-> "HEADING_1",
                 children |-> <<TextRun([text |-> ttl, bold |-> TRUE])>>])>>

\* if (title) contentElements.push(heading 1 with the title)
TitleHeading(ttl) ==
    IF ttl /= <<>>
    THEN <<Paragraph([heading |-> "HEADING_1",
                      children |-> <<TextRun([text |-> ttl, bold |-> TRUE])>>])>>
    ELSE <<>>

buildDocument(bs, ttl) ==
    LET children ==
            <<TitleParagraph(ttl),
              Paragraph([children |-> <<PageBreak>>]),
              Paragraph([heading |-> "HEADING_1",
                         children |-> <<TextRun([text |-> Chars("Table of Contents"),
                                                 bold |-> TRUE])>>]),
              TableOfContents("TOC",
                  [heading1Range |-> "1-3",
                   stylesWithLevels |-> <<[name |-> "Heading1", styleId |-> "Heading1"],
                                          [name |-> "Heading2", styleId |-> "Heading2"],
                                          [name |-> "Heading3", styleId |-> "Heading3"]>>]),
              Paragraph([children |-> <<PageBreak>>])>>
        numbering ==
            [config |-> <<[reference |-> "numbered-list",
                           levels |-> <<[level |-> 0, format |-> "DECIMAL",
                                         text |-> "%1.", alignment |-> "LEFT"]>>]>>]
        contentElements == TitleHeading(ttl) \o ContentOf(bs)
    IN  Document([sections |->
            <<[children |-> children],
              [children |-> contentElements, numbering |-> numbering]>>])

\* main: const document = buildDocument(blocks, title), with the blocks that
\* parseMarkdown returned for the content of the input file (a string)
BuildDocument ==
    /\ pc = "done"
    /\ text.kind = "string"
    /\ \E t \in Titles :
        /\ title' = t
        /\ document' = buildDocument(blocks, t)
    /\ pc' = "built"
    /\ UNCHANGED <<text, lines, i, blocks, inlineVars, runVars, returned>>

\* neither program is run as a process
RunIdle ==
    /\ argv = NoArgs
    /\ disk = NoDisk
    /\ written = 0
    /\ stdout = <<>>
    /\ stderr = <<>>
    /\ exitCode = Running
    /\ sections = <<>>
    /\ sectionIndex = 0
    /\ docChildren = <<>>
    /\ doc = NoDocument
    /\ cpc = "idle"

InlineIdle ==
    /\ itext = Null
    /\ runs = <<>>
    /\ lastIndex = 0
    /\ ipc = "idle"

Init ==
    /\ text \in ParseInputs
    /\ lines = <<>>
    /\ i = 0
    /\ blocks = <<>>
    /\ pc = "call"
    /\ title = <<>>
    /\ document = NoDocument
    /\ returned = <<>>
    /\ InlineIdle
    /\ RunIdle

Next ==
    \/ ReturnEmpty
    \/ StartScan
    \/ SkipBlank
    \/ EmitHeading
    \/ EmitCode
    \/ EmitBlockquote
    \/ EmitTable
    \/ EmitBulletList
    \/ EmitNumberedList
    \/ EmitPlaceholder
    \/ EmitParagraph
    \/ ReturnBlocks
    \/ BuildDocument

Spec == Init /\ [][Next]_vars

MaxFairLines == 2    \* lines of a text of the fair specification

\* a fence that is never closed, with a blank line and a fence opener inside
FenceTexts == {Chars("~~~\n\na"), Chars("a\n~~~js\n- a\n\n1. a")}

FairTexts ==
    {Join(ls, "\n") : ls \in SeqsUpTo(CoreLines, MaxFairLines)}
        \cup TableTexts \cup FenceTexts

InitFair ==
    /\ text \in {Str(t) : t \in FairTexts}
    /\ lines = <<>>
    /\ i = 0
    /\ blocks = <<>>
    /\ pc = "call"
    /\ title = <<>>
    /\ document = NoDocument
    /\ returned = <<>>
    /\ InlineIdle
    /\ RunIdle

\* parseMarkdown is synchronous code: a call that has a next statement to
\* execute executes it
SpecFair == InitFair /\ [][Next]_vars /\ WF_vars(Next)

TypeOK ==
    /\ pc \in {"idle", "main", "call", "scan", "done", "build", "built", "then", "log",
              "catch", "exited", "error"}
    /\ i \in 0..(Len(lines) + 1)
    /\ \A k \in 1..Len(blocks) :
        blocks[k].type \in {"heading", "paragraph", "code", "bullet_list",
                            "numbered_list", "table", "blockquote", "placeholder"}

ParseIdle ==
    /\ text = Null
    /\ lines = <<>>
    /\ i = 0
    /\ blocks = <<>>
    /\ pc = "idle"
    /\ title = <<>>
    /\ document = NoDocument
    /\ returned = <<>>

InitInline ==
    /\ itext \in InlineInputs
    /\ runs = <<>>
    /\ lastIndex = 0
    /\ ipc = "call"
    /\ ParseIdle
    /\ RunIdle

NextInline ==
    \/ InlineReturnEmpty
    \/ InlineStart
    \/ InlineMatch
    \/ InlineReturn

SpecInline == InitInline /\ [][NextInline]_vars

(***************************************************************************)
(* buildDocument called on its own, with any sequence of blocks of the     *)
(* data model and any title.                                               *)
(***************************************************************************)
BuildBlocks ==
    {heading(1, Chars("T")), heading(2, Chars("**b**")), heading(3, Chars("~c~")),
     paragraph(Chars("a **b** ~c~")), paragraph(Chars("a")),
     code(<<>>, Chars("a")), code(Chars("js"), Chars("a\nb")), code(<<>>, Chars("a\nb")),
     code(<<>>, <<>>),
     bullet_list(<<Chars("a"), Chars("**b**")>>),
     numbered_list(<<Chars("a"), Chars("~c~")>>), numbered_list(<<Chars("b")>>),
     table(<<Chars("A"), Chars("**b**")>>,
           <<<<Chars("1")>>, <<Chars("1"), Chars("~c~"), Chars("3")>>>>),
     table(<<Chars("A")>>, <<>>),
     blockquote(Chars("**b**")),
     placeholder(Chars("Image: x")),
     bullet_list(<<>>),
     [type |-> "chart"]}

BlockSeqs == SeqsUpTo(BuildBlocks, MaxBlocks)

InitBuild ==
    /\ blocks \in BlockSeqs
    /\ title \in Titles
    /\ document = NoDocument
    /\ returned = <<>>
    /\ pc = "build"
    /\ text = Null
    /\ lines = <<>>
    /\ i = 0
    /\ InlineIdle
    /\ RunIdle

\* const document = buildDocument(blocks, title)
CallBuildDocument ==
    /\ pc = "build"
    /\ document' = buildDocument(blocks, title)
    /\ pc' = "built"
    /\ UNCHANGED <<text, lines, i, blocks, title, inlineVars, runVars, returned>>

NextBuild == CallBuildDocument

SpecBuild == InitBuild /\ [][NextBuild]_vars


(***************************************************************************)
(* src/node/converter.js: the Section pipeline, run as a process.  A       *)
(* section is a record that has the fields its JSON object has; a missing  *)
(* field reads as undefined.                                               *)
(***************************************************************************)
Has(section, field) == field \in DOMAIN section

\* formatting.includes(name)
Includes(formatting, name) == \E k \in 1..Len(formatting) : formatting[k] = name

ImageRun(opts) == [el |-> "ImageRun", opts |-> opts]

\* mutant of createTextRun: a run carries the first format of the set only
createTextRunFirstFormat(txt, formatting) ==
    LET first == IF formatting = <<>> THEN <<>> ELSE <<formatting[1]>>
    IN  TextRun([text |-> txt,
                 bold |-> Includes(first, "bold"),
                 italics |-> Includes(first, "italic"),
                 underline |-> IF Includes(first, "underline") THEN Obj ELSE Undefined])

createTextRun(txt, formatting) ==
    TextRun([text |-> txt,
             bold |-> Includes(formatting, "bold"),
             italics |-> Includes(formatting, "italic"),
             underline |-> IF Includes(formatting, "underline") THEN Obj ELSE Undefined])

\* what a call of mapSection comes to: it returns an element or an array of
\* elements, it ends the process through error(message), or it throws
Returns(v) == [outcome |-> "return", elements |-> v]
Exits(message) == [outcome |-> "exit", message |-> message]
Throws(what) == [outcome |-> "throw", message |-> <<"Uncaught ", what>>]

\* case "heading1" | "heading2" | "heading3"
SectionHeading(section, level) ==
    Returns(JsObject(Paragraph([text |-> IF Has(section, "text") THEN section.text
                                         ELSE Undefined,
                                heading |-> level])))

\* case "paragraph": split of undefined throws a TypeError
SectionParagraph(section) ==
    IF ~Has(section, "text") THEN Throws("TypeError")
    ELSE LET formatting == IF Has(section, "formatting") THEN section.formatting ELSE <<>>
             sruns == [k \in 1..Len(section.text) |->
                          createTextRun(<<section.text[k]>>, formatting)]
         IN  Returns(JsObject(Paragraph(
                 [children |-> IF Len(sruns) > 0 THEN sruns
                               ELSE <<TextRun([text |-> <<>>])>>])))

\* case "code_block"
SectionCodeBlock(section) ==
    LET scode == IF Has(section, "code") THEN section.code ELSE <<>>
        slines == Split(scode, "\n")
    IN  Returns(JsArray([k \in 1..Len(slines) |->
                            Paragraph([text |-> slines[k], style |-> "Code"])]))

\* case "table"
SectionTable(section) ==
    LET headers == IF Has(section, "headers") THEN section.headers ELSE <<>>
        rows == IF Has(section, "rows") THEN section.rows ELSE <<>>
        headerCells ==
            [k \in 1..Len(headers) |->
                TableCell([children |-> <<Paragraph([children |->
                               <<TextRun([text |-> headers[k], bold |-> TRUE])>>])>>,
                           verticalAlign |-> "CENTER"])]
        headerRow == TableRow([children |-> headerCells, tableHeader |-> TRUE])
        dataRows ==
            [r \in 1..Len(rows) |->
                TableRow([children |-> [k \in 1..Len(rows[r]) |->
                    TableCell([children |-> <<Paragraph([text |-> rows[r][k]])>>,
                               verticalAlign |-> "CENTER"])]])]
    IN  Returns(JsObject(Table([rows |-> <<headerRow>> \o dataRows,
                                width |-> [size |-> 100, type |-> "PERCENTAGE"]])))

\* mutant of SectionImage: a missing image becomes an empty paragraph
SectionImageSkipsMissing(section, files) ==
    IF section.path \notin files.images
    THEN Returns(JsObject(Paragraph([text |-> <<>>])))
    ELSE Returns(JsObject(Paragraph([children |->
             <<ImageRun([data |-> <<"content of ", section.path>>,
                         transformation |->
                             [width |-> IF Has(section, "width") THEN section.width ELSE 200,
                              height |-> IF Has(section, "height") THEN section.height
                                         ELSE 200]])>>])))

\* case "image": error() ends the process when the file does not exist
SectionImage(section, files) ==
    IF section.path \notin files.images
    THEN Exits(<<"Image file not found: ", section.path>>)
    ELSE Returns(JsObject(Paragraph([children |->
             <<ImageRun([data |-> <<"content of ", section.path>>,
                         transformation |->
                             [width |-> IF Has(section, "width") THEN section.width ELSE 200,
                              height |-> IF Has(section, "height") THEN section.height
                                         ELSE 200]])>>])))

mapSection(section, files) ==
    IF section.type = "heading1" THEN SectionHeading(section, "HEADING_1")
    ELSE IF section.type = "heading2" THEN SectionHeading(section, "HEADING_2")
    ELSE IF section.type = "heading3" THEN SectionHeading(section, "HEADING_3")
    ELSE IF section.type = "paragraph" THEN SectionParagraph(section)
    ELSE IF section.type = "code_block" THEN SectionCodeBlock(section)
    ELSE IF section.type = "table" THEN SectionTable(section)
    ELSE IF section.type = "image" THEN SectionImage(section, files)
    ELSE Returns(JsObject(Paragraph([text |-> <<>>])))

\* new Document({ sections: [{ properties, children }], styles })
SectionDocument(children) ==
    Document([sections |-> <<[children |-> children]>>,
              styles |-> [paragraphStyles |->
                  <<[id |-> "Code", name |-> "Code", run |-> [font |-> "Courier New"]]>>]])

ImagePaths == {"a.png", "b.png"}

SectionCatalogue ==
    {[type |-> "heading1", text |-> Chars("T")],
     [type |-> "heading2", text |-> Chars("U")],
     [type |-> "heading3", text |-> Chars("V")],
     [type |-> "paragraph", text |-> Chars("ab"), formatting |-> <<"bold", "italic">>],
     [type |-> "paragraph", text |-> Chars("abc"), formatting |-> <<"underline">>],
     [type |-> "paragraph", text |-> Chars("ab")],
     [type |-> "paragraph", text |-> <<>>, formatting |-> <<"bold">>],
     [type |-> "paragraph"],
     [type |-> "code_block", code |-> Chars("a\nb")],
     [type |-> "code_block"],
     [type |-> "table", headers |-> <<Chars("A"), Chars("B")>>,
      rows |-> <<<<Chars("1")>>, <<Chars("1"), Chars(""), Chars("3")>>>>],
     [type |-> "table"],
     [type |-> "image", path |-> "a.png"],
     [type |-> "image", path |-> "b.png", width |-> 10],
     [type |-> "chart"]}

\* what JSON.parse gives for the input file
JsonValues ==
    {[sections |-> ss] : ss \in SeqsUpTo(SectionCatalogue, MaxSections)}
        \cup {[metadata |-> "m"], Null}

\* the input file is missing, is not JSON, or holds a JSON value; the image
\* a.png may exist, b.png never does
FileMissing == [file |-> "missing"]
FileInvalid == [file |-> "invalid"]

ConverterDisks ==
    [json : {FileMissing, FileInvalid} \cup JsonValues, images : {{}, {"a.png"}}]

\* process.argv: an argument that is not given reads as undefined
ConverterArgs ==
    {[program |-> "converter.js", jsonPath |-> j, docxPath |-> o] :
        j \in {"in.json"}, o \in {"out.docx"}}
        \cup {[program |-> "converter.js", jsonPath |-> "in.json"],
              [program |-> "converter.js"]}

\* error(message): write the message to stderr, process.exit(1); an uncaught
\* exception or rejection ends the process the same way
ProcessExit(message) ==
    /\ stderr' = Append(stderr, message)
    /\ exitCode' = 1

\* mutant of ConverterStart: only jsonPath is required
ConverterStartJsonPathOnly ==
    /\ cpc = "start"
    /\ IF ~Has(argv, "jsonPath")
       THEN /\ ProcessExit(<<"Usage: node converter.js <jsonPath> <docxPath>">>)
            /\ cpc' = "exited"
       ELSE /\ cpc' = "load"
            /\ UNCHANGED <<stderr, exitCode>>
    /\ UNCHANGED <<argv, disk, written, stdout, sections, sectionIndex, docChildren, doc,
                   parseVars, inlineVars>>

\* if (!jsonPath || !docxPath) error(Usage); await convert(jsonPath, docxPath)
ConverterStart ==
    /\ cpc = "start"
    /\ IF ~Has(argv, "jsonPath") \/ ~Has(argv, "docxPath")
       THEN /\ ProcessExit(<<"Usage: node converter.js <jsonPath> <docxPath>">>)
            /\ cpc' = "exited"
       ELSE /\ cpc' = "load"
            /\ UNCHANGED <<stderr, exitCode>>
    /\ UNCHANGED <<argv, disk, written, stdout, sections, sectionIndex, docChildren, doc,
                   parseVars, inlineVars>>

\* const data = loadJson(jsonPath); const sections = data.sections || [];
\* const docChildren = [];
LoadJson ==
    /\ cpc = "load"
    /\ IF disk.json \in {FileMissing, FileInvalid}
       THEN /\ ProcessExit(<<"Failed to parse JSON: ", disk.json.file>>)
            /\ cpc' = "exited"
            /\ UNCHANGED <<sections, docChildren, sectionIndex>>
       ELSE IF disk.json = Null
       THEN /\ ProcessExit(<<"Uncaught ", "TypeError">>)
            /\ cpc' = "exited"
            /\ UNCHANGED <<sections, docChildren, sectionIndex>>
       ELSE /\ sections' = IF Has(disk.json, "sections") THEN disk.json.sections ELSE <<>>
            /\ docChildren' = <<>>
            /\ sectionIndex' = 0
            /\ cpc' = "loop"
            /\ UNCHANGED <<stderr, exitCode>>
    /\ UNCHANGED <<argv, disk, written, stdout, doc, parseVars, inlineVars>>

\* one iteration of for (const section of sections)
MapSection ==
    /\ cpc = "loop"
    /\ sectionIndex < Len(sections)
    /\ LET result == mapSection(sections[sectionIndex + 1], disk)
       IN  IF result.outcome = "return"
           THEN /\ docChildren' = docChildren \o
                        (IF result.elements.isArray THEN result.elements.value
                         ELSE <<result.elements.value>>)
                /\ sectionIndex' = sectionIndex + 1
                /\ UNCHANGED <<stderr, exitCode, cpc>>
           ELSE /\ ProcessExit(result.message)
                /\ cpc' = "exited"
                /\ UNCHANGED <<docChildren, sectionIndex>>
    /\ UNCHANGED <<argv, disk, written, stdout, sections, doc, parseVars, inlineVars>>

\* const doc = new Document({...})
NewDocument ==
    /\ cpc = "loop"
    /\ sectionIndex = Len(sections)
    /\ doc' = SectionDocument(docChildren)
    /\ cpc' = "pack"
    /\ UNCHANGED <<processVars, sections, sectionIndex, docChildren, parseVars, inlineVars>>

\* const buffer = await Packer.toBuffer(doc): the promise is fulfilled, or it
\* is rejected and nothing catches the rejection
PackerToBuffer ==
    /\ cpc = "pack"
    /\ \/ /\ cpc' = "write"
          /\ UNCHANGED <<stderr, exitCode>>
       \/ /\ ProcessExit(<<"Uncaught ", "rejection of Packer.toBuffer">>)
          /\ cpc' = "exited"
    /\ UNCHANGED <<argv, disk, written, stdout, sections, sectionIndex, docChildren, doc,
                   parseVars, inlineVars>>

\* writeFileSync(docxPath, buffer): the file is written, or the call throws
\* and nothing is written
WriteFileSync ==
    /\ cpc = "write"
    /\ \/ /\ written' = written + 1
          /\ cpc' = "log"
          /\ UNCHANGED <<stderr, exitCode>>
       \/ /\ ProcessExit(<<"Uncaught ", "error of writeFileSync">>)
          /\ cpc' = "exited"
          /\ UNCHANGED written
    /\ UNCHANGED <<argv, disk, stdout, sections, sectionIndex, docChildren, doc,
                   parseVars, inlineVars>>

\* console.log(Created DOCX: docxPath); the program ends
LogCreated ==
    /\ cpc = "log"
    /\ stdout' = Append(stdout, <<"Created DOCX: ", argv.docxPath>>)
    /\ exitCode' = 0
    /\ cpc' = "exited"
    /\ UNCHANGED <<argv, disk, written, stderr, sections, sectionIndex, docChildren, doc,
                   parseVars, inlineVars>>

InitSection ==
    /\ argv \in ConverterArgs
    /\ disk \in ConverterDisks
    /\ written = 0
    /\ stdout = <<>>
    /\ stderr = <<>>
    /\ exitCode = Running
    /\ sections = <<>>
    /\ sectionIndex = 0
    /\ docChildren = <<>>
    /\ doc = NoDocument
    /\ cpc = "start"
    /\ ParseIdle
    /\ InlineIdle

NextSection ==
    \/ ConverterStart
    \/ LoadJson
    \/ MapSection
    \/ NewDocument
    \/ PackerToBuffer
    \/ WriteFileSync
    \/ LogCreated

SpecSection == InitSection /\ [][NextSection]_vars

(***************************************************************************)
(* converter/convert.js: main, run as a process.  Between reading the      *)
(* input file and building the document it goes through the steps of       *)
(* parseMarkdown above.                                                    *)
(***************************************************************************)
\* what the input file holds
MainContents ==
    {l : l \in CoreLines} \cup {Chars("|a|\n|-|\n|a|"), Chars("# a\n\n- a\n* b\n\na")}

\* a path that exists and cannot be read as a file
FileDirectory == [file |-> "directory"]

MainDisks ==
    {[input |-> FileMissing], [input |-> FileDirectory]}
        \cup {[input |-> [content |-> c]] : c \in MainContents}

\* args._[0] is undefined when no input file is named
MainArgs == {[program |-> "convert.js", inputFile |-> "in.md"], [program |-> "convert.js"]}

\* if (!inputFile) { console.error(Usage); process.exit(1); }
MainUsage ==
    /\ pc = "main"
    /\ ~Has(argv, "inputFile")
    /\ ProcessExit(<<"Usage: node convert.js <input.md> [--title] [--output]">>)
    /\ pc' = "exited"
    /\ UNCHANGED <<text, lines, i, blocks, title, document, argv, disk, written, stdout,
                   sectionVars, inlineVars, returned>>

\* if (!fs.existsSync(inputPath)) { console.error(not found); process.exit(1); }
MainNotFound ==
    /\ pc = "main"
    /\ Has(argv, "inputFile")
    /\ disk.input = FileMissing
    /\ ProcessExit(<<"Error: Input file not found: ", argv.inputFile>>)
    /\ pc' = "exited"
    /\ UNCHANGED <<text, lines, i, blocks, title, document, argv, disk, written, stdout,
                   sectionVars, inlineVars, returned>>

\* const markdownContent = fs.readFileSync(inputPath, 'utf-8'), which throws
\* when the path cannot be read and nothing catches it;
\* const blocks = parseMarkdown(markdownContent): the call
MainRead ==
    /\ pc = "main"
    /\ Has(argv, "inputFile")
    /\ disk.input /= FileMissing
    /\ IF disk.input = FileDirectory
       THEN /\ ProcessExit(<<"Uncaught ", "EISDIR">>)
            /\ pc' = "exited"
            /\ UNCHANGED text
       ELSE /\ text' = Str(disk.input.content)
            /\ pc' = "call"
            /\ UNCHANGED <<stderr, exitCode>>
    /\ UNCHANGED <<lines, i, blocks, title, document, argv, disk, written, stdout,
                   sectionVars, inlineVars, returned>>

\* mutant of MainPackerToBuffer: the promise chain has no catch, a rejection
\* ends the process as an unhandled one
MainPackerToBufferUnhandled ==
    /\ pc = "built"
    /\ \/ /\ pc' = "then"
          /\ UNCHANGED <<stderr, exitCode>>
       \/ /\ ProcessExit(<<"Uncaught ", "rejection of Packer.toBuffer">>)
          /\ pc' = "exited"
    /\ UNCHANGED <<text, lines, i, blocks, title, document, argv, disk, written, stdout,
                   sectionVars, inlineVars, returned>>

\* Packer.toBuffer(document): the promise is fulfilled or rejected
MainPackerToBuffer ==
    /\ pc = "built"
    /\ pc' \in {"then", "catch"}
    /\ UNCHANGED <<text, lines, i, blocks, title, document, inlineVars, runVars, returned>>

\* .then: fs.writeFileSync(outputPath, buffer): the file is written, or the
\* call throws, nothing is written, and the promise of then is rejected
MainWrite ==
    /\ pc = "then"
    /\ \/ /\ written' = written + 1
          /\ pc' = "log"
       \/ /\ pc' = "catch"
          /\ UNCHANGED written
    /\ UNCHANGED <<text, lines, i, blocks, title, document, argv, disk, stdout, stderr,
                   exitCode, sectionVars, inlineVars, returned>>

\* .then: console.log(Success: Document created at outputPath); main is over
MainLog ==
    /\ pc = "log"
    /\ stdout' = Append(stdout, <<"Success: Document created at ", "output.docx">>)
    /\ exitCode' = 0
    /\ pc' = "exited"
    /\ UNCHANGED <<text, lines, i, blocks, title, document, argv, disk, written, stderr,
                   sectionVars, inlineVars, returned>>

\* mutant of MainCatch: the error is reported and the process ends with 0
MainCatchExitsZero ==
    /\ pc = "catch"
    /\ stderr' = Append(stderr, <<"Error creating document:">>)
    /\ exitCode' = 0
    /\ pc' = "exited"
    /\ UNCHANGED <<text, lines, i, blocks, title, document, argv, disk, written, stdout,
                   sectionVars, inlineVars, returned>>

\* .catch: console.error('Error creating document:', err); process.exit(1);
MainCatch ==
    /\ pc = "catch"
    /\ ProcessExit(<<"Error creating document:">>)
    /\ pc' = "exited"
    /\ UNCHANGED <<text, lines, i, blocks, title, document, argv, disk, written, stdout,
                   sectionVars, inlineVars, returned>>

InitMain ==
    /\ argv \in MainArgs
    /\ disk \in MainDisks
    /\ written = 0
    /\ stdout = <<>>
    /\ stderr = <<>>
    /\ exitCode = Running
    /\ sections = <<>>
    /\ sectionIndex = 0
    /\ docChildren = <<>>
    /\ doc = NoDocument
    /\ cpc = "idle"
    /\ text = Null
    /\ lines = <<>>
    /\ i = 0
    /\ blocks = <<>>
    /\ pc = "main"
    /\ title = <<>>
    /\ document = NoDocument
    /\ returned = <<>>
    /\ InlineIdle

NextMain ==
    \/ MainUsage
    \/ MainNotFound
    \/ MainRead
    \/ ReturnEmpty
    \/ StartScan
    \/ SkipBlank
    \/ EmitHeading
    \/ EmitCode
    \/ EmitBlockquote
    \/ EmitTable
    \/ EmitBulletList
    \/ EmitNumberedList
    \/ EmitPlaceholder
    \/ EmitParagraph
    \/ ReturnBlocks
    \/ BuildDocument
    \/ MainPackerToBuffer
    \/ MainWrite
    \/ MainLog
    \/ MainCatch

(***************************************************************************)
(* A run of either program.  Nothing but the process itself takes steps,   *)
(* and a process that can take a step takes it: the promise of             *)
(* Packer.toBuffer is settled, callbacks that are due are called.         *)
(***************************************************************************)
InitRuns == InitMain \/ InitSection

NextRuns == NextMain \/ NextSection

SpecRuns == InitRuns /\ [][NextRuns]_vars /\ WF_vars(NextRuns)

(***************************************************************************)
(* md_parser.js: parseMarkdown called several times by one program.  The   *)
(* module has no variable outside its functions, and every regular         *)
(* expression is a literal without the g flag, evaluated anew; lines, i    *)
(* and blocks are locals that each call initializes.  The model has one    *)
(* copy of them, which the next call finds as the previous call left it.   *)
(***************************************************************************)
MaxCalls == 3        \* calls of parseMarkdown after the first one

CallInputs ==
    {Str(Chars("# a\n\n~~~\nx\n~~~\n> q")),
     Str(Chars("|a|\n|-|\n|1|\n- a\n* b")),
     Str(Chars("1. a\n[Image: x]\na")),
     Str(Chars("")),
     Null}

\* parseMarkdown(text) has returned blocks; the next call, parseMarkdown(input)
CallParseMarkdown ==
    /\ pc = "done"
    /\ Len(returned) < MaxCalls
    /\ returned' = Append(returned, [input |-> text, result |-> blocks])
    /\ text' \in CallInputs
    /\ pc' = "call"
    /\ UNCHANGED <<lines, i, blocks, title, document, inlineVars, runVars>>

InitCalls ==
    /\ text \in CallInputs
    /\ lines = <<>>
    /\ i = 0
    /\ blocks = <<>>
    /\ pc = "call"
    /\ title = <<>>
    /\ document = NoDocument
    /\ returned = <<>>
    /\ InlineIdle
    /\ RunIdle

NextCalls ==
    \/ ReturnEmpty
    \/ StartScan
    \/ SkipBlank
    \/ EmitHeading
    \/ EmitCode
    \/ EmitBlockquote
    \/ EmitTable
    \/ EmitBulletList
    \/ EmitNumberedList
    \/ EmitPlaceholder
    \/ EmitParagraph
    \/ ReturnBlocks
    \/ CallParseMarkdown

SpecCalls == InitCalls /\ [][NextCalls]_vars

(***************************************************************************)
(* Properties of the tokenizer.  The vocabulary below restates the         *)
(* specification's words (white space, blank, joined by newline, stripped) *)
(* independently of the operators that model the code.                     *)
(***************************************************************************)
AtCursor == pc = "scan" /\ i < Len(lines)
CursorLine == lines[i + 1]

OnlyWhiteSpace(s) == \A k \in 1..Len(s) : s[k] \in {" ", "\t", "\n", "\r"}

RECURSIVE DropLeadingSpace(_)
DropLeadingSpace(s) ==
    IF s /= <<>> /\ OnlyWhiteSpace(<<s[1]>>) THEN DropLeadingSpace(Tail(s)) ELSE s

RECURSIVE DropTrailingSpace(_)
DropTrailingSpace(s) ==
    IF s /= <<>> /\ OnlyWhiteSpace(<<s[Len(s)]>>)
    THEN DropTrailingSpace(SubSeq(s, 1, Len(s) - 1))
    ELSE s

Stripped(s) == DropTrailingSpace(DropLeadingSpace(s))

RECURSIVE NewlineJoined(_)
NewlineJoined(ls) ==
    IF ls = <<>> THEN <<>>
    ELSE IF Len(ls) = 1 THEN ls[1]
    ELSE NewlineJoined(SubSeq(ls, 1, Len(ls) - 1)) \o <<"\n">> \o ls[Len(ls)]

BeginsWithThreeBackticks(line) ==
    Len(line) >= 3 /\ \A k \in 1..3 : line[k] = Backtick

\* three backticks, then nothing or a language tag (letters, digits, underscore)
IsFenceOpener(line) ==
    /\ BeginsWithThreeBackticks(line)
    /\ \A k \in 4..Len(line) : line[k] \in WordChars

\* the 0-based index of the first line after line j that begins with three
\* backticks; the number of lines when there is none
FenceClose(ls, j) ==
    LET closers == {k \in (j + 1)..(Len(ls) - 1) : BeginsWithThreeBackticks(ls[k + 1])}
    IN  IF closers = {} THEN Len(ls)
        ELSE CHOOSE k \in closers : \A m \in closers : k <= m

\* C1: when the cursor is on a fence opener, that one step appends exactly one
\* Code block: its lang is the tag (or the empty string), its content is every
\* line after the opener up to the first line that begins with three backticks
\* (or up to the end of the input), verbatim and joined by newline; the cursor
\* lands after the closing line, so the interior lines and the closing line are
\* never tokenized; and once the cursor is past the last line (as after an
\* unclosed fence) the scan returns without adding a block.
C1_FenceBecomesOneCodeBlock ==
    [][/\ (AtCursor /\ IsFenceOpener(CursorLine)) =>
            LET close == FenceClose(lines, i)
                interior == [k \in 1..(close - i - 1) |-> lines[i + 1 + k]]
            IN  /\ blocks' = blocks \o
                      <<[type |-> "code",
                         lang |-> SubSeq(CursorLine, 4, Len(CursorLine)),
                         content |-> NewlineJoined(interior)]>>
                /\ i' = close + 1
                /\ pc' = "scan"
       /\ (pc = "scan" /\ i >= Len(lines)) => (pc' = "done" /\ blocks' = blocks)
      ]_vars

\* an unclosed fence whose interior is a blank line and a heading line
C1_Witness ==
    /\ pc = "done"
    /\ text = Str(Chars("~~~\n\n# a"))
    /\ blocks = <<code(<<>>, Chars("\n# a"))>>

\* the tokenizer rules other than blank and paragraph, as the tokenizer tests
\* them on the line at 0-based index j
OtherRuleApplies(ls, j) ==
    \/ HeadingMatches(ls[j + 1])
    \/ CodeBlockMatches(ls[j + 1])
    \/ StartsWith(ls[j + 1], <<">">>)
    \/ TableStarts(ls, j)
    \/ BulletMatches(ls[j + 1])
    \/ NumberedMatches(ls[j + 1])
    \/ PlaceholderMatches(ls[j + 1])

IsPlainLine(ls, j) == ~OnlyWhiteSpace(ls[j + 1]) /\ ~OtherRuleApplies(ls, j)

\* C3: a blank line at the cursor yields no block; a non-blank line at the
\* cursor that matches no other tokenizer rule yields exactly one Paragraph
\* whose text is the raw line, and the cursor moves by one line, so that k such
\* lines in a row yield k Paragraphs; a text all of whose lines are such lines
\* is tokenized into one Paragraph per line, in order.
C3_ParagraphPerLine ==
    /\ [][AtCursor =>
            /\ OnlyWhiteSpace(CursorLine) => (blocks' = blocks /\ i' = i + 1)
            /\ IsPlainLine(lines, i) =>
                  /\ blocks' = blocks \o <<[type |-> "paragraph", text |-> CursorLine]>>
                  /\ i' = i + 1
         ]_vars
    /\ [](pc = "done" /\ text.kind = "string" /\ text.chars /= <<>>
            /\ (\A j \in 0..(Len(lines) - 1) : IsPlainLine(lines, j))
          => blocks = [k \in 1..Len(lines) |-> [type |-> "paragraph", text |-> lines[k]]])

\* two plain lines in a row, untrimmed and with their inline markers
C3_Witness ==
    /\ pc = "done"
    /\ text = Str(Chars("a\n **b** ~c~ "))
    /\ blocks = <<paragraph(Chars("a")), paragraph(Chars(" **b** ~c~ "))>>

\* C4: a line at the cursor that starts with > yields, in that one step, its
\* own Blockquote whose text is the line without the > and stripped of
\* surrounding white space, and the cursor moves by one line only, so that n
\* quote lines in a row yield n Blockquotes in source order.
C4_BlockquotePerLine ==
    [][(AtCursor /\ CursorLine /= <<>> /\ CursorLine[1] = ">") =>
            /\ blocks' = blocks \o
                  <<[type |-> "blockquote", text |-> Stripped(Tail(CursorLine))]>>
            /\ i' = i + 1
      ]_vars

C4_Witness ==
    /\ pc = "done"
    /\ text = Str(Chars(">\n>  q  "))
    /\ blocks = <<blockquote(<<>>), blockquote(Chars("q"))>>

\* a pipe-delimited row: it starts and ends with a pipe, with something between
IsPipeRow(line) == Len(line) >= 3 /\ line[1] = "|" /\ line[Len(line)] = "|"

\* a separator row made of dashes/colons: nothing but dashes, colons, pipes and
\* white space, and at least one dash or colon
IsDashSeparator(line) ==
    /\ \A k \in 1..Len(line) : line[k] \in {"-", ":", "|", " ", "\t"}
    /\ \E k \in 1..Len(line) : line[k] \in {"-", ":"}

\* the number of lines from 0-based index j on that all satisfy P
RunFrom(ls, j, P(_)) ==
    CHOOSE n \in 0..(Len(ls) - j) :
        /\ \A k \in 1..n : P(ls[j + k])
        /\ j + n < Len(ls) => ~P(ls[j + n + 1])

\* C2: a step appends a Table only when the line at the cursor is a
\* pipe-delimited row and the next line is a separator row made of
\* dashes/colons; a pipe-delimited row whose next line is missing or is no such
\* separator becomes a Paragraph; and when a table is recognized the cursor
\* skips the separator and every pipe-delimited line that follows it, those
\* lines being the rows of the one Table (which is emitted whenever the header
\* has a non-empty cell).
C2_TableOnlyAboveDashSeparator ==
    [][AtCursor =>
        LET tableEmitted == /\ Len(blocks') = Len(blocks) + 1
                            /\ blocks'[Len(blocks')].type = "table"
            recognized == /\ IsPipeRow(CursorLine)
                          /\ i + 1 < Len(lines)
                          /\ IsDashSeparator(lines[i + 2])
            n == RunFrom(lines, i + 2, IsPipeRow)
        IN  /\ tableEmitted => recognized
            /\ (IsPipeRow(CursorLine) /\ ~recognized) =>
                  blocks' = blocks \o <<[type |-> "paragraph", text |-> CursorLine]>>
            /\ recognized =>
                  /\ i' = i + 2 + n
                  /\ tableEmitted => Len(blocks'[Len(blocks')].rows) = n
                  /\ (\E k \in 2..(Len(CursorLine) - 1) :
                          CursorLine[k] \notin {"|", " ", "\t"}) => tableEmitted
      ]_vars

IsBulletLine(line) ==
    Len(line) >= 2 /\ line[1] \in {"-", "*"} /\ OnlyWhiteSpace(<<line[2]>>)

\* digits, a dot, white space
IsNumberedLine(line) ==
    \E d \in 1..Len(line) :
        /\ \A k \in 1..d : line[k] \in Digits
        /\ Len(line) >= d + 2
        /\ line[d + 1] = "."
        /\ OnlyWhiteSpace(<<line[d + 2]>>)

\* the line without its marker and without the white space after the marker
WithoutBullet(line) == DropLeadingSpace(Tail(line))

WithoutNumber(line) ==
    LET dot == CHOOSE k \in 1..Len(line) : line[k] = "." /\ \A m \in 1..(k - 1) : line[m] /= "."
    IN  DropLeadingSpace(SubSeq(line, dot + 1, Len(line)))

\* C5: when the cursor is on a bullet line it is on the first line of a maximal
\* run of bullet lines (either marker), and that one step appends exactly one
\* BulletList whose items are the lines of the whole run without marker and
\* following white space, in order, and moves the cursor past the run; the same
\* for a run of numbered lines and one NumberedList; no list block ever has
\* zero items.
C5_OneListPerRun ==
    /\ [][AtCursor =>
            /\ IsBulletLine(CursorLine) =>
                  LET n == RunFrom(lines, i, IsBulletLine)
                  IN  /\ i > 0 => ~IsBulletLine(lines[i])
                      /\ blocks' = blocks \o
                            <<[type |-> "bullet_list",
                               items |-> [k \in 1..n |-> WithoutBullet(lines[i + k])]]>>
                      /\ i' = i + n
            /\ IsNumberedLine(CursorLine) =>
                  LET n == RunFrom(lines, i, IsNumberedLine)
                  IN  /\ i > 0 => ~IsNumberedLine(lines[i])
                      /\ blocks' = blocks \o
                            <<[type |-> "numbered_list",
                               items |-> [k \in 1..n |-> WithoutNumber(lines[i + k])]]>>
                      /\ i' = i + n
         ]_vars
    /\ [](\A k \in 1..Len(blocks) :
            blocks[k].type \in {"bullet_list", "numbered_list"} => Len(blocks[k].items) >= 1)

\* a run mixing both bullet markers, directly followed by a numbered run
C5_Witness ==
    /\ pc = "done"
    /\ text = Str(Chars("- a\n* b\n1. a"))
    /\ blocks = <<bullet_list(<<Chars("a"), Chars("b")>>), numbered_list(<<Chars("a")>>)>>

\* one, two or three #, then white space, then text: one or more characters,
\* none of them a line terminator
IsHeadingLine(line) ==
    \E h \in 1..3 : \E w \in 1..Len(line) :
        /\ Len(line) > h + w
        /\ \A k \in 1..h : line[k] = "#"
        /\ \A k \in (h + 1)..(h + w) : OnlyWhiteSpace(<<line[k]>>)
        /\ \A k \in (h + w + 1)..Len(line) : line[k] \notin {"\n", "\r"}

HashCount(line) == Cardinality({k \in 1..Len(line) : \A m \in 1..k : line[m] = "#"})

IsPlaceholderLine(line, kind, ws, X) == line = <<"[">> \o kind \o <<":">> \o ws \o X \o <<"]">>

\* what lies between the prefix [ kind : ws and the final ] of the line
PlaceholderX(line, kind, ws) == SubSeq(line, Len(kind) + 3 + Len(ws), Len(line) - 1)

\* exactly [Image: X] or [External: X], X not empty
IsExactPlaceholder(line, kind) ==
    /\ Len(line) > Len(kind) + 4
    /\ IsPlaceholderLine(line, kind, <<" ">>, PlaceholderX(line, kind, <<" ">>))

\* X does not begin with white space and holds no line terminator
IsSolid(X) ==
    /\ X /= <<>>
    /\ ~OnlyWhiteSpace(<<X[1]>>)
    /\ \A k \in 1..Len(X) : X[k] \notin {"\n", "\r"}

\* one italic paragraph whose only run has the text txt
ItalicParagraph(txt) ==
    [el |-> "Paragraph",
     opts |-> [children |-> <<[el |-> "TextRun", opts |-> [text |-> txt, italics |-> TRUE]]>>]]

LastBlockIsNew(type) ==
    Len(blocks') = Len(blocks) + 1 /\ blocks'[Len(blocks')].type = type

\* the content elements of the document, without the title heading
BodyElements ==
    LET c == document.opts.sections[2].children
    IN  IF title = <<>> THEN c ELSE Tail(c)

IsEmptyOrNotAString(v) == v.kind /= "string" \/ v.chars = <<>>

\* C8: for every input that is the empty string, null, undefined or not a
\* string, parseMarkdown returns the empty sequence of blocks: the call
\* returns in one step, no error is ever raised, and the result is empty.
C8_NoBlocksForEmptyOrNonString ==
    /\ [](pc /= "error")
    /\ []((pc \in {"done", "built"} /\ IsEmptyOrNotAString(text)) => blocks = <<>>)
    /\ [][(pc = "call" /\ IsEmptyOrNotAString(text))
            => (pc' = "done" /\ blocks' = <<>>)]_vars

\* parseMarkdown(42) has returned the empty sequence
C8_Witness ==
    /\ pc = "done"
    /\ text = Num(42)
    /\ blocks = <<>>

(***************************************************************************)
(* Properties of the inline formatter.                                     *)
(***************************************************************************)
IsPlainRun(r) == DOMAIN r.opts = {"text"}
IsBoldRun(r) == DOMAIN r.opts = {"text", "bold"} /\ r.opts.bold = TRUE
IsCodeRun(r) == DOMAIN r.opts = {"text", "font"} /\ r.opts.font = "Courier New"

\* the source text a run stands for: a span with its markers put back
RunSource(r) ==
    IF IsBoldRun(r) THEN <<"*", "*">> \o r.opts.text \o <<"*", "*">>
    ELSE IF IsCodeRun(r) THEN <<Backtick>> \o r.opts.text \o <<Backtick>>
    ELSE r.opts.text

RECURSIVE RunsSource(_)
RunsSource(rs) == IF rs = <<>> THEN <<>> ELSE RunSource(Head(rs)) \o RunsSource(Tail(rs))

\* the marker d occurs at position p of s
MarkerAt(s, p, d) == p + Len(d) - 1 <= Len(s) /\ SubSeq(s, p, p + Len(d) - 1) = d

\* the marker d occurs in s, its closing partner is the next occurrence of d
\* after it, and one or more characters lie between the two
HasCompletePair(s, d) ==
    \E p \in 1..Len(s) : \E q \in 1..Len(s) :
        /\ q >= p + Len(d) + 1
        /\ MarkerAt(s, p, d)
        /\ MarkerAt(s, q, d)
        /\ \A r \in (p + Len(d))..(q - 1) : ~MarkerAt(s, r, d)

\* C9 as stated: the runs are plain, bold or code; putting the markers back
\* around the spans gives the text again (spans are complete pairs, in order,
\* not overlapping, everything else unchanged in plain runs); a marker without
\* a closing partner or enclosing nothing opens no span; and a text that holds
\* a complete pair of a marker gets a span.
C9_SpansAreCompletePairs ==
    (ipc = "done" /\ itext.kind = "string" /\ itext.chars /= <<>>) =>
        /\ \A k \in 1..Len(runs) :
              /\ runs[k].el = "TextRun"
              /\ IsPlainRun(runs[k]) \/ IsBoldRun(runs[k]) \/ IsCodeRun(runs[k])
              /\ runs[k].opts.text /= <<>>
        /\ RunsSource(runs) = itext.chars
        /\ ~HasCompletePair(itext.chars, <<"*", "*">>)
              => \A k \in 1..Len(runs) : ~IsBoldRun(runs[k])
        /\ ~HasCompletePair(itext.chars, <<Backtick>>)
              => \A k \in 1..Len(runs) : ~IsCodeRun(runs[k])
        /\ (HasCompletePair(itext.chars, <<"*", "*">>)
                \/ HasCompletePair(itext.chars, <<Backtick>>))
              => \E k \in 1..Len(runs) : IsBoldRun(runs[k]) \/ IsCodeRun(runs[k])

\* C10: parseInlineFormatting returns one run or more for every input, and
\* for the empty string, null and undefined exactly one plain run whose text
\* is the empty string.
C10_AtLeastOneRun ==
    ipc = "done" =>
        /\ Len(runs) >= 1
        /\ Falsy(itext) => runs = <<[el |-> "TextRun", opts |-> [text |-> <<>>]]>>

\* parseInlineFormatting of the empty string has returned its single run
C10_Witness ==
    /\ ipc = "done"
    /\ itext = Str(<<>>)
    /\ runs = <<[el |-> "TextRun", opts |-> [text |-> <<>>]]>>

(***************************************************************************)
(* Properties of the assembler of the markdown pipeline.                   *)
(***************************************************************************)
\* the content elements of the built document, title heading included
ContentElements == document.opts.sections[2].children

\* the front matter of the built document
FrontMatter == document.opts.sections[1].children

\* the interior lines of the content of a Code block
InteriorLines(content) == Split(content, "\n")

RECURSIVE InteriorLinesOf(_)
InteriorLinesOf(bs) ==
    IF bs = <<>> THEN <<>> ELSE InteriorLines(bs[1].content) \o InteriorLinesOf(Tail(bs))

\* a paragraph in a fixed-width font on a shaded background
IsCodeParagraph(e) ==
    /\ e.el = "Paragraph"
    /\ "shading" \in DOMAIN e.opts
    /\ "children" \in DOMAIN e.opts
    /\ Len(e.opts.children) = 1
    /\ "font" \in DOMAIN e.opts.children[1].opts
    /\ e.opts.children[1].opts.font = "Courier New"

\* the blocks with every language tag erased
RECURSIVE WithoutLang(_)
WithoutLang(bs) ==
    IF bs = <<>> THEN <<>>
    ELSE <<IF bs[1].type = "code" THEN code(<<>>, bs[1].content) ELSE bs[1]>>
             \o WithoutLang(Tail(bs))

\* C11: a document built from Code blocks with non-empty content has one
\* fixed-width shaded paragraph per interior line of the blocks, each holding
\* its line, in order; and erasing the language tags of the blocks leaves the
\* built document as it is.
C11_OneParagraphPerCodeLine ==
    pc = "built" =>
        /\ (\A k \in 1..Len(blocks) : blocks[k].type = "code" /\ blocks[k].content /= <<>>)
             => /\ Len(BodyElements) = Len(InteriorLinesOf(blocks))
                /\ \A k \in 1..Len(BodyElements) :
                      /\ IsCodeParagraph(BodyElements[k])
                      /\ BodyElements[k].opts.children[1].opts.text = InteriorLinesOf(blocks)[k]
        /\ document = buildDocument(WithoutLang(blocks), title)

\* the number of content elements a block stands for: one per item of a
\* list, one for any other block
ElementsPer(b) ==
    IF b.type \in {"bullet_list", "numbered_list"} THEN Len(b.items) ELSE 1

\* the number of body elements that come before those of block number k
RECURSIVE ElementsBefore(_, _)
ElementsBefore(bs, k) ==
    IF k <= 1 THEN 0 ELSE ElementsBefore(bs, k - 1) + ElementsPer(bs[k - 1])

\* the numbering registry entries of the document, all sections together
RECURSIVE RegistryEntries(_)
RegistryEntries(secs) ==
    IF secs = <<>> THEN <<>>
    ELSE (IF "numbering" \in DOMAIN secs[1] THEN secs[1].numbering.config ELSE <<>>)
            \o RegistryEntries(Tail(secs))

\* C12: the built document has exactly one numbering registry entry, whatever
\* the blocks; each list block stands for one paragraph per item, in item
\* order; a paragraph of a NumberedList item refers to that one entry at
\* level 0; a paragraph of a BulletList item has bullet level 0 and no
\* numbering reference.
C12_OneSharedNumberingEntry ==
    pc = "built" =>
        LET registry == RegistryEntries(document.opts.sections)
        IN  /\ Len(registry) = 1
            /\ Len(BodyElements) = ElementsBefore(blocks, Len(blocks) + 1)
            /\ \A k \in 1..Len(blocks) :
                  blocks[k].type \in {"bullet_list", "numbered_list"} =>
                      \A j \in 1..Len(blocks[k].items) :
                          LET e == BodyElements[ElementsBefore(blocks, k) + j]
                          IN  /\ e.el = "Paragraph"
                              /\ e.opts.text = blocks[k].items[j]
                              /\ IF blocks[k].type = "numbered_list"
                                 THEN /\ "numbering" \in DOMAIN e.opts
                                      /\ e.opts.numbering.reference = registry[1].reference
                                      /\ e.opts.numbering.level = 0
                                      /\ \E l \in 1..Len(registry[1].levels) :
                                            registry[1].levels[l].level = 0
                                 ELSE /\ "numbering" \notin DOMAIN e.opts
                                      /\ e.opts.bullet.level = 0

\* two NumberedList blocks built into one document: three item paragraphs
C12_Witness ==
    /\ pc = "built"
    /\ blocks = <<numbered_list(<<Chars("b")>>),
                  numbered_list(<<Chars("a"), Chars("~c~")>>)>>
    /\ Len(BodyElements) = 3
    /\ BodyElements[3].opts.numbering.reference = "numbered-list"

\* the only content element of block number k (a block that is not a list)
ElementOf(k) == BodyElements[ElementsBefore(blocks, k) + 1]

\* the paragraph p holds the text txt as the characters of a single run
IsSingleRunOf(p, txt) ==
    /\ p.el = "Paragraph"
    /\ IF "children" \in DOMAIN p.opts
       THEN Len(p.opts.children) = 1 /\ p.opts.children[1].opts.text = txt
       ELSE p.opts.text = txt

\* the cell c of a table holds the text txt as the characters of a single run
IsSingleRunCell(c, txt) ==
    /\ c.el = "TableCell"
    /\ Len(c.opts.children) = 1
    /\ IsSingleRunOf(c.opts.children[1], txt)

\* C13: a Paragraph block stands for one paragraph element whose runs are the
\* spans parseInlineFormatting returns for its text, in order, each plain,
\* bold or fixed-width; the text of a heading, a list item, a table cell and
\* a blockquote is the text of a single run, markers included.
C13_InlineFormattingInParagraphsOnly ==
    pc = "built" =>
        \A k \in 1..Len(blocks) :
            LET b == blocks[k]
            IN  /\ b.type = "paragraph" =>
                    /\ ElementsPer(b) = 1
                    /\ ElementOf(k).el = "Paragraph"
                    /\ ElementOf(k).opts.children = parseInlineFormatting(b.text)
                    /\ \A r \in 1..Len(ElementOf(k).opts.children) :
                          LET run == ElementOf(k).opts.children[r]
                          IN  IsPlainRun(run) \/ IsBoldRun(run) \/ IsCodeRun(run)
                    /\ RunsSource(ElementOf(k).opts.children) = b.text
                /\ b.type \in {"heading", "blockquote"} =>
                    IsSingleRunOf(ElementOf(k), b.text)
                /\ b.type \in {"bullet_list", "numbered_list"} =>
                    \A j \in 1..Len(b.items) :
                        IsSingleRunOf(BodyElements[ElementsBefore(blocks, k) + j], b.items[j])
                /\ b.type = "table" =>
                    /\ \A c \in 1..Len(b.headers) :
                          IsSingleRunCell(ElementOf(k).opts.rows[1].opts.children[c],
                                          b.headers[c])
                    /\ \A r \in 1..Len(b.rows) : \A c \in 1..Len(b.rows[r]) :
                          IsSingleRunCell(ElementOf(k).opts.rows[r + 1].opts.children[c],
                                          b.rows[r][c])

\* a Paragraph with a bold and a code span next to a Blockquote with markers
C13_Witness ==
    /\ pc = "built"
    /\ blocks = <<paragraph(Chars("a **b** ~c~")), blockquote(Chars("**b**"))>>
    /\ Len(BodyElements) = 2
    /\ BodyElements[1].opts.children
          = <<[el |-> "TextRun", opts |-> [text |-> Chars("a ")]],
              [el |-> "TextRun", opts |-> [text |-> Chars("b"), bold |-> TRUE]],
              [el |-> "TextRun", opts |-> [text |-> Chars(" ")]],
              [el |-> "TextRun", opts |-> [text |-> Chars("c"), font |-> "Courier New"]]>>
    /\ BodyElements[2].opts.children[1].opts.text = Chars("**b**")

\* a header cell: its text in a bold run, on a shaded background
IsHeaderCell(c, txt) ==
    /\ IsSingleRunCell(c, txt)
    /\ "bold" \in DOMAIN c.opts.children[1].opts.children[1].opts
    /\ c.opts.children[1].opts.children[1].opts.bold = TRUE
    /\ "shading" \in DOMAIN c.opts
    /\ c.opts.shading.fill = "D0D0D0"

IsPageBreak(e) ==
    /\ e.el = "Paragraph"
    /\ e.opts.children = <<[el |-> "PageBreak"]>>

\* C15: whatever the blocks and the title, the front matter is the same fixed
\* sequence: first one centered paragraph with one large run that shows the
\* title, or Document Title when the title is empty; second a page break;
\* after it the table of contents for heading levels 1-3; and it is the
\* front matter that the same title gets with no blocks at all.
C15_FixedFrontMatter ==
    pc = "built" =>
        /\ Len(FrontMatter) = 5
        /\ FrontMatter[1].el = "Paragraph"
        /\ FrontMatter[1].opts.alignment = "CENTER"
        /\ Len(FrontMatter[1].opts.children) = 1
        /\ FrontMatter[1].opts.children[1].opts.size = 72
        /\ FrontMatter[1].opts.children[1].opts.text
              = (IF title = <<>> THEN Chars("Document Title") ELSE title)
        /\ IsPageBreak(FrontMatter[2])
        /\ FrontMatter[4].el = "TableOfContents"
        /\ FrontMatter[4].opts.heading1Range = "1-3"
        /\ \A k \in 1..Len(FrontMatter) :
              FrontMatter[k].el = "TableOfContents" => k = 4
        /\ FrontMatter = buildDocument(<<>>, title).opts.sections[1].children

\* a document with blocks and an empty title: the title page shows the
\* placeholder title
C15_Witness ==
    /\ pc = "built"
    /\ title = <<>>
    /\ Len(blocks) = 2
    /\ FrontMatter[1].opts.children[1].opts.text = Chars("Document Title")
    /\ IsPageBreak(FrontMatter[2])

\* a heading-styled paragraph of level 1
IsHeadingOne(e) ==
    /\ e.el = "Paragraph"
    /\ "heading" \in DOMAIN e.opts
    /\ e.opts.heading = "HEADING_1"

\* C16: the document assembled from the one block Heading{1, T} with the
\* title Doc shows Doc in the title run of its front matter, its content
\* begins with a heading-level-1 element, and the block is in the content as
\* a heading-level-1 element with the text T.
C16_HeadingOneDocument ==
    (pc = "built" /\ blocks = <<heading(1, Chars("T"))>> /\ title = Chars("Doc")) =>
        /\ \E k \in 1..Len(FrontMatter) :
              /\ FrontMatter[k].el = "Paragraph"
              /\ FrontMatter[k].opts.children
                    = <<[el |-> "TextRun",
                         opts |-> [text |-> Chars("Doc"), size |-> 72, bold |-> TRUE]]>>
        /\ ContentElements /= <<>>
        /\ IsHeadingOne(ContentElements[1])
        /\ \E k \in 1..Len(ContentElements) :
              /\ IsHeadingOne(ContentElements[k])
              /\ IsSingleRunOf(ContentElements[k], Chars("T"))

\* the document of Heading{1, T} and title Doc: the title heading, then T
C16_Witness ==
    /\ pc = "built"
    /\ blocks = <<heading(1, Chars("T"))>>
    /\ title = Chars("Doc")
    /\ Len(ContentElements) = 2
    /\ IsSingleRunOf(ContentElements[1], Chars("Doc"))
    /\ IsSingleRunOf(ContentElements[2], Chars("T"))

(***************************************************************************)
(* Properties of the Section pipeline.                                     *)
(***************************************************************************)
\* some element of the sequence es is a table-of-contents marker
HasTocMarker(es) == \E k \in 1..Len(es) : es[k].el = "TableOfContents"

\* some element of the sequence es is a centered paragraph (the title page)
HasTitlePage(es) ==
    \E k \in 1..Len(es) :
        /\ es[k].el = "Paragraph"
        /\ "alignment" \in DOMAIN es[k].opts
        /\ es[k].opts.alignment = "CENTER"

\* C17: the document that convert assembles has the shape of the document of
\* buildDocument: a front matter section with the title page and the
\* table-of-contents marker, one numbering registry entry, and then the
\* content elements mapped from the sections.
C17_SectionDocumentHasMarkdownShape ==
    doc /= NoDocument =>
        /\ Len(doc.opts.sections) = 2
        /\ HasTitlePage(doc.opts.sections[1].children)
        /\ HasTocMarker(doc.opts.sections[1].children)
        /\ Len(RegistryEntries(doc.opts.sections)) = 1
        /\ doc.opts.sections[2].children = docChildren

\* the for loop of convert is about to take a section
AtSection == cpc = "loop" /\ sectionIndex < Len(sections)
SectionTaken == sections[sectionIndex + 1]

\* the formatting set of a section, empty when the section has none
FormatSet(section) ==
    IF Has(section, "formatting")
    THEN {section.formatting[k] : k \in 1..Len(section.formatting)}
    ELSE {}

\* the run r holds the text txt and carries exactly the formats of the set F
CarriesFormats(r, txt, F) ==
    /\ r.el = "TextRun"
    /\ r.opts.text = txt
    /\ r.opts.bold = ("bold" \in F)
    /\ r.opts.italics = ("italic" \in F)
    /\ (r.opts.underline /= Undefined) = ("underline" \in F)

IsMissingImage(k) ==
    /\ sections[k].type = "image"
    /\ sections[k].path \notin disk.images

\* C19: when the loop of convert takes an image section whose path does not
\* exist, at whatever position, the run stops there: Image file not found
\* and the path go to stderr, the exit code is 1, the section and every later
\* one are not mapped; and a run whose sections hold such an image never
\* builds the document, never calls the serializer, never writes the output
\* file, never prints the success message and never exits with 0.  A run
\* that has stopped takes no further step.
C19_MissingImageStopsRun ==
    /\ [][(AtSection /\ IsMissingImage(sectionIndex + 1)) =>
            /\ stderr' = Append(stderr, <<"Image file not found: ",
                                          sections[sectionIndex + 1].path>>)
            /\ exitCode' = 1
            /\ cpc' = "exited"
            /\ UNCHANGED <<docChildren, sectionIndex, doc, written, stdout>>
         ]_vars
    /\ [][exitCode /= Running => UNCHANGED vars]_vars
    /\ [](\A k \in 1..Len(sections) :
            IsMissingImage(k) =>
                /\ sectionIndex < k
                /\ doc = NoDocument
                /\ cpc \notin {"pack", "write", "log"}
                /\ written = 0
                /\ stdout = <<>>
                /\ exitCode /= 0)

\* a run stopped at its second section, an image that does not exist, after
\* the first section was mapped
C19_Witness ==
    /\ cpc = "exited"
    /\ exitCode = 1
    /\ Len(sections) = 2
    /\ sections[2] = [type |-> "image", path |-> "b.png", width |-> 10]
    /\ sectionIndex = 1
    /\ Len(docChildren) = 1
    /\ stderr = << <<"Image file not found: ", "b.png">> >>
    /\ written = 0
    /\ stdout = <<>>

(***************************************************************************)
(* The order of the stages of a run, in both programs.                     *)
(***************************************************************************)
\* the stages of convert.js in the order main goes through them
MainStage ==
    [idle |-> 0, main |-> 1, call |-> 2, scan |-> 3, done |-> 4, built |-> 5,
     then |-> 6, log |-> 7, catch |-> 8, exited |-> 9]

\* the stages of converter.js in the order the script goes through them
SectionStage ==
    [idle |-> 0, start |-> 1, load |-> 2, loop |-> 3, pack |-> 4, write |-> 5,
     log |-> 6, exited |-> 7]

\* the input is read, tokenized or mapped, assembled and serialized
AllStagesSucceeded ==
    \/ /\ pc = "then"
       /\ text.kind = "string"
       /\ document /= NoDocument
       /\ document = buildDocument(blocks, title)
    \/ /\ cpc = "write"
       /\ sectionIndex = Len(sections)
       /\ doc /= NoDocument
       /\ doc = SectionDocument(docChildren)

RunEnded == exitCode /= Running

\* C20: in both pipelines the output file is written at most once per run,
\* and only when reading, tokenizing or mapping, assembling and serializing
\* have all succeeded; the confirmation on standard output and exit code 0
\* come only after that write; every run ends, either with the file written
\* and exit code 0 or with no file written and a non-zero exit code; no
\* stage is gone through a second time and nothing happens after the end.
C20_WriteOnceAfterAllStages ==
    /\ [](written \in {0, 1})
    /\ [][written' /= written => (AllStagesSucceeded /\ written = 0 /\ written' = 1)]_vars
    /\ [](stdout /= <<>> => written = 1)
    /\ [][stdout' /= stdout => (written = 1 /\ exitCode' = 0 /\ Len(stdout') = 1)]_vars
    /\ [](exitCode = 0 => (written = 1 /\ stdout /= <<>>))
    /\ [](RunEnded => \/ exitCode = 0 /\ written = 1
                      \/ exitCode /= 0 /\ written = 0 /\ stdout = <<>>)
    /\ [][/\ MainStage[pc'] >= MainStage[pc]
          /\ SectionStage[cpc'] >= SectionStage[cpc]]_vars
    /\ [][RunEnded => UNCHANGED vars]_vars
    /\ <>RunEnded

\* a run of convert.js on a file with a heading, a list and a paragraph has
\* ended with the document written once, the confirmation and exit code 0
C20_Witness ==
    /\ pc = "exited"
    /\ exitCode = 0
    /\ written = 1
    /\ Len(stdout) = 1
    /\ stderr = <<>>
    /\ Len(blocks) = 3
    /\ document = buildDocument(blocks, title)

(***************************************************************************)
(* Input errors of converter.js.                                           *)
(***************************************************************************)
ArgsMissing == ~Has(argv, "jsonPath") \/ ~Has(argv, "docxPath")

NothingMappedOrWritten ==
    /\ sectionIndex = 0
    /\ docChildren = <<>>
    /\ doc = NoDocument
    /\ written = 0
    /\ stdout = <<>>

\* C21: in converter.js a missing jsonPath or docxPath gives the Usage
\* message on stderr, and an input file that is not JSON gives
\* 'Failed to parse JSON: <detail>' on stderr; either ends the process at
\* once with a non-zero exit code; with an argument missing no file is read
\* (loadJson is never entered); no section is mapped and no file is written.
C21_InputErrorsEndTheRun ==
    /\ [][(cpc = "start" /\ ArgsMissing) =>
            /\ stderr' = <<<<"Usage: node converter.js <jsonPath> <docxPath>">>>>
            /\ exitCode' = 1
            /\ cpc' = "exited"]_vars
    /\ [](ArgsMissing => cpc \in {"start", "exited"})
    /\ [][(cpc = "load" /\ disk.json = FileInvalid) =>
            /\ stderr' = <<<<"Failed to parse JSON: ", "invalid">>>>
            /\ exitCode' = 1
            /\ cpc' = "exited"]_vars
    /\ []((ArgsMissing \/ disk.json = FileInvalid) => NothingMappedOrWritten)
    /\ []((ArgsMissing \/ disk.json = FileInvalid) => exitCode \in {Running, 1})
    /\ [][exitCode /= Running => UNCHANGED vars]_vars

\* both arguments are given, the input file is not JSON, and the run has
\* ended with the parse message and exit code 1
C21_Witness ==
    /\ ~ArgsMissing
    /\ disk.json = FileInvalid
    /\ cpc = "exited"
    /\ exitCode = 1
    /\ stderr = <<<<"Failed to parse JSON: ", "invalid">>>>
    /\ NothingMappedOrWritten

(***************************************************************************)
(* Sections with optional fields absent.                                   *)
(***************************************************************************)
SectionTypes ==
    {"heading1", "heading2", "heading3", "paragraph", "code_block", "table", "image"}

EmptyPlaceholder == Returns(JsObject(Paragraph([text |-> <<>>])))

OneEmptyCodeParagraph == Returns(JsArray(<<Paragraph([text |-> <<>>, style |-> "Code"])>>))

EmptyHeaderTable ==
    Returns(JsObject(Table([rows |-> <<TableRow([children |-> <<>>, tableHeader |-> TRUE])>>,
                            width |-> [size |-> 100, type |-> "PERCENTAGE"]])))

\* C22: every section of the input whose optional fields (text, formatting,
\* code, headers, rows, width, height) are absent, and every section of an
\* unrecognized type, is mapped without an error (an image only when its
\* file exists); an unrecognized type gives one empty paragraph, a code_block
\* without code one empty paragraph, a table without headers and rows a
\* table of one empty header row; with no sections the document has no
\* content elements and exit code 0 comes with the file written.
C22_OptionalFieldsNeverFail ==
    /\ \A k \in 1..Len(sections) :
          LET section == sections[k]
              result == mapSection(section, disk)
          IN  /\ (section.type = "image" => section.path \in disk.images)
                    => result.outcome = "return"
              /\ section.type \notin SectionTypes => result = EmptyPlaceholder
              /\ (section.type = "code_block" /\ ~Has(section, "code"))
                    => result = OneEmptyCodeParagraph
              /\ (section.type = "table" /\ ~Has(section, "headers") /\ ~Has(section, "rows"))
                    => result = EmptyHeaderTable
    /\ (sections = <<>> /\ doc /= NoDocument) => doc = SectionDocument(<<>>)
    /\ exitCode = 0 => written = 1

(***************************************************************************)
(* parseMarkdown called repeatedly.                                        *)
(***************************************************************************)
\* C23: parseMarkdown carries no state from one call to the next: whenever a
\* call returns, its result is the same sequence of blocks as the result of
\* every earlier call on the same input, whatever calls came in between.
C23_SameInputSameBlocks ==
    pc = "done" =>
        \A k \in 1..Len(returned) :
            returned[k].input = text => returned[k].result = blocks

\* the markdown text with a heading, a fence and a quote is tokenized a
\* second time, after a call on another text, with the same three blocks
C23_Witness ==
    /\ pc = "done"
    /\ Len(returned) = 2
    /\ returned[1].input = text
    /\ returned[2].input /= text
    /\ returned[2].result /= <<>>
    /\ Len(blocks) = 3
    /\ returned[1].result = blocks

(***************************************************************************)
(* Blocks and the lines they are made of.                                  *)
(***************************************************************************)
\* what one iteration of the main loop appends when the lines ls are all
\* there is and the cursor is at their first line: no block or one block
BlocksOfLines(ls) ==
    LET rule == Rule(ls, 0)
        line == ls[1]
    IN  IF rule = "blank" THEN <<>>
        ELSE IF rule = "heading"
        THEN <<heading(Len(HeadingMatch(line).g1), Trim(HeadingMatch(line).g2))>>
        ELSE IF rule = "code"
        THEN <<code(CodeBlockMatch(line).g1, Join(SubSeq(ls, 2, CodeLoop(ls, 1)), "\n"))>>
        ELSE IF rule = "blockquote" THEN <<blockquote(Trim(SliceFrom(line, 1)))>>
        ELSE IF rule = "table"
        THEN IF Cells(line) = <<>> THEN <<>>
             ELSE <<table(Cells(line),
                          [k \in 1..(RowLoop(ls, 2) - 2) |-> Cells(ls[2 + k])])>>
        ELSE IF rule = "bullet_list"
        THEN <<bullet_list([k \in 1..BulletLoop(ls, 0) |-> BulletItem(ls[k])])>>
        ELSE IF rule = "numbered_list"
        THEN <<numbered_list([k \in 1..NumberedLoop(ls, 0) |-> NumberedItem(ls[k])])>>
        ELSE IF rule = "placeholder"
        THEN <<placeholder(PlaceholderMatch(line).g1 \o <<":", " ">>
                               \o PlaceholderMatch(line).g2)>>
        ELSE <<paragraph(line)>>

\* the lines among the first n that are not blank
NonBlankLines(ls, n) == {k \in 1..n : ~IsBlankLine(ls[k])}

\* C24: during the scan a step either leaves the blocks as they are or
\* appends one block at the end, so the blocks stay in the order of the lines
\* they start at and none is changed or removed; the cursor moves forward
\* past the lines the step consumed, and the block appended is made of those
\* lines alone, so no line is part of two blocks; there are never more
\* blocks than non-blank lines passed.
C24_BlocksFollowLines ==
    /\ [][(pc = "scan" /\ pc' = "scan") =>
            LET last == Min(i', Len(lines))
            IN  /\ i' > i
                /\ blocks' = blocks \o BlocksOfLines(SubSeq(lines, i + 1, last))]_vars
    /\ [][(pc = "scan" /\ pc' /= "scan") => (blocks' = blocks)]_vars
    /\ [][(pc \in {"done", "built"}) => (blocks' = blocks)]_vars
    /\ [](pc \in {"scan", "done", "built"} =>
            Len(blocks) <= Cardinality(NonBlankLines(lines, Min(i, Len(lines)))))

\* a table of header, separator and one list after it: two blocks from
\* three lines, the table first
C24_Witness ==
    /\ pc = "done"
    /\ lines = <<Chars("|a|"), Chars("|-|"), Chars("- a")>>
    /\ blocks = <<table(<<Chars("a")>>, <<>>), bullet_list(<<Chars("a")>>)>>

(***************************************************************************)
(* The cells of a table line.                                              *)
(***************************************************************************)
\* the pieces of the line between its | characters, each trimmed
TrimmedPieces(line) == MapTrim(Split(line, "|"))

\* the sequence s without the empty strings at its two ends
RECURSIVE DropEmptyEnds(_)
DropEmptyEnds(s) ==
    IF s = <<>> THEN s
    ELSE IF s[1] = <<>> THEN DropEmptyEnds(Tail(s))
    ELSE IF s[Len(s)] = <<>> THEN DropEmptyEnds(SubSeq(s, 1, Len(s) - 1))
    ELSE s

\* C25: the cells of a table header and of a table row are the pieces of the
\* line between the | characters, trimmed, without the empty pieces at the
\* two ends: an empty piece between two non-empty ones stays a cell, the
\* empty string, and the row keeps its number of cells.
C25_InteriorEmptyCellsKept ==
    [][(AtCursor /\ Rule(lines, i) = "table" /\ Len(blocks') > Len(blocks)) =>
          LET tbl == blocks'[Len(blocks')]
          IN  /\ tbl.headers = DropEmptyEnds(TrimmedPieces(CursorLine))
              /\ \A k \in 1..Len(tbl.rows) :
                    tbl.rows[k] = DropEmptyEnds(TrimmedPieces(lines[i + 2 + k]))]_vars

(***************************************************************************)
(* A table whose header has no cell.                                       *)
(***************************************************************************)
\* no piece of the line between its | characters has anything but white space
HasNoCell(line) ==
    \A k \in 1..Len(Split(line, "|")) : OnlyWhiteSpace(Split(line, "|")[k])

\* where the iteration of the main loop at cursor j leaves the cursor
CursorAfter(ls, j) ==
    LET rule == Rule(ls, j)
    IN  IF rule = "code" THEN CodeLoop(ls, j + 1) + 1
        ELSE IF rule = "table" THEN RowLoop(ls, j + 2)
        ELSE IF rule = "bullet_list" THEN BulletLoop(ls, j)
        ELSE IF rule = "numbered_list" THEN NumberedLoop(ls, j)
        ELSE j + 1

\* the blocks of the lines of ls from cursor j on
RECURSIVE BlocksFrom(_, _)
BlocksFrom(ls, j) ==
    IF j >= Len(ls) THEN <<>>
    ELSE BlocksOfLines(SubSeq(ls, j + 1, Min(CursorAfter(ls, j), Len(ls))))
             \o BlocksFrom(ls, CursorAfter(ls, j))

\* C26: when the header line of a recognized table has no non-empty cell,
\* the step appends no block and raises no error; the cursor moves past the
\* header, the separator and the rows the table rule read, and the scan goes
\* on from there; the blocks of the whole text are then those of the lines
\* after the dropped ones, so the dropped lines are in no block.
C26_EmptyHeaderTableDropped ==
    /\ [][(AtCursor /\ Rule(lines, i) = "table" /\ HasNoCell(CursorLine)) =>
            /\ blocks' = blocks
            /\ i' = RowLoop(lines, i + 2)
            /\ i' >= i + 2
            /\ pc' = "scan"]_vars
    /\ []((/\ pc = "done"
           /\ Len(lines) >= 2
           /\ Rule(lines, 0) = "table"
           /\ HasNoCell(lines[1]))
             => blocks = BlocksFrom(lines, RowLoop(lines, 2)))
    /\ [](\A k \in 1..Len(blocks) : blocks[k].type = "table" => blocks[k].headers /= <<>>)

\* the header | | and its separator are dropped together with the row after
\* them; the only block is the list of the fourth line
C26_Witness ==
    /\ pc = "done"
    /\ lines = <<Chars("| |"), Chars("|-|"), Chars("| b |"), Chars("- a")>>
    /\ blocks = <<bullet_list(<<Chars("a")>>)>>

C28_ScanTerminates ==
    /\ [][AtCursor =>
            LET rule == Rule(lines, i)
            IN  /\ i' > i
                /\ rule \in {"blank", "heading", "blockquote", "placeholder", "paragraph"}
                      => i' = i + 1
                /\ rule = "table" => (i' >= i + 2 /\ i' <= Len(lines))
                /\ rule \in {"bullet_list", "numbered_list"} => (i' >= i + 1 /\ i' <= Len(lines))
                /\ rule = "code" => (i' >= i + 1 /\ i' <= Len(lines) + 1)]_vars
    /\ [](pc = "scan" => i <= Len(lines) + 1)
    /\ [][(pc = "scan" /\ pc' /= "scan") => (i >= Len(lines) /\ pc' = "done")]_vars
    /\ (pc = "call" /\ text.kind = "string") ~> (pc = "done")

\* the scan of a fence without a closing line, with a blank line inside, has
\* ended with the cursor one past the last line
C28_Witness ==
    /\ pc = "done"
    /\ lines = <<Fence, Chars(""), Chars("a")>>
    /\ i = Len(lines) + 1
    /\ blocks = <<code(<<>>, Chars("\na"))>>

(***************************************************************************)
(* The runs of a text, put together again.                                 *)
(***************************************************************************)
NoAdjacentPlainRuns(rs) ==
    \A k \in 1..(Len(rs) - 1) : ~(IsPlainRun(rs[k]) /\ IsPlainRun(rs[k + 1]))

\* C29: for a non-empty text, the runs pushed so far, with ** put back
\* around the text of a bold run and a backtick on either side of the text
\* of a code run, are the text up to the end of the last match, and the runs
\* returned are the whole text: nothing is lost, doubled or out of order;
\* no run has an empty text and no plain run follows a plain run.
C29_RunsGiveTheTextBack ==
    (itext.kind = "string" /\ itext.chars /= <<>>) =>
        /\ ipc = "exec" => RunsSource(runs) = SubSeq(itext.chars, 1, lastIndex)
        /\ ipc = "done" => RunsSource(runs) = itext.chars
        /\ ipc \in {"exec", "done"} =>
              /\ \A k \in 1..Len(runs) : runs[k].opts.text /= <<>>
              /\ NoAdjacentPlainRuns(runs)

\* a**a**a has been split into a plain, a bold and a plain run
C29_Witness ==
    /\ ipc = "done"
    /\ itext = Str(<<"a", "*", "*", "a", "*", "*", "a">>)
    /\ runs = <<PlainRun(<<"a">>), BoldRun(<<"a">>), PlainRun(<<"a">>)>>

(***************************************************************************)
(* The content elements, block by block.                                   *)
(***************************************************************************)
\* 1 when the title heading is in the content, 0 when it is not
TitleElements == IF title /= <<>> THEN 1 ELSE 0

\* the content elements of the document of the block b alone, without title
ElementsOfBlock(b) == buildDocument(<<b>>, <<>>).opts.sections[2].children

\* C30: the content elements are the heading-level-1 paragraph of the title
\* exactly when the title is not empty (with an empty title the title page
\* shows the placeholder text), and then the elements of the blocks, block
\* after block: one element per item for a list, one element for any other
\* block, a block of an unknown type included; the number of elements is the
\* sum of these.
C30_ContentIsTitleThenBlocks ==
    pc = "built" =>
        /\ Len(ContentElements) = TitleElements + ElementsBefore(blocks, Len(blocks) + 1)
        /\ title /= <<>> =>
              /\ IsHeadingOne(ContentElements[1])
              /\ IsSingleRunOf(ContentElements[1], title)
        /\ title = <<>> =>
              /\ FrontMatter[1].opts.children[1].opts.text = Chars("Document Title")
              /\ ContentElements = buildDocument(blocks, Chars("Doc")).opts.sections[2].children
                                      => blocks = <<>>
              /\ Len(buildDocument(blocks, Chars("Doc")).opts.sections[2].children)
                    = Len(ContentElements) + 1
        /\ \A k \in 1..Len(blocks) :
              LET from == TitleElements + ElementsBefore(blocks, k)
                  n == ElementsPer(blocks[k])
              IN  /\ Len(ElementsOfBlock(blocks[k])) = n
                  /\ SubSeq(ContentElements, from + 1, from + n) = ElementsOfBlock(blocks[k])
                  /\ blocks[k].type \in {"bullet_list", "numbered_list"} =>
                        \A j \in 1..n : ContentElements[from + j].el = "Paragraph"
                  /\ blocks[k] = [type |-> "chart"] =>
                        ContentElements[from + 1]
                            = Paragraph([children |-> <<TextRun([text |-> <<>>])>>])

\* a block of an unknown type and a list of two items under the title Doc:
\* four content elements, the title heading first
C30_Witness ==
    /\ pc = "built"
    /\ title = Chars("Doc")
    /\ blocks = <<[type |-> "chart"], bullet_list(<<Chars("a"), Chars("**b**")>>)>>
    /\ Len(ContentElements) = 4
    /\ IsHeadingOne(ContentElements[1])
    /\ ContentElements[2] = Paragraph([children |-> <<TextRun([text |-> <<>>])>>])

====
